---- MODULE Spec2Model ----
(***************************************************************************)
(* A model of the filing acquisition and extraction core of sec-webapp:    *)
(*   app/scrapers/sec_scraper.py     SECRealTimeScraper                    *)
(*   app/scrapers/sec_downloader.py  SECFilingDownloader                   *)
(*                                                                         *)
(* Text is a sequence of one-character strings, so that the regular        *)
(* expressions of the source are computed character by character.  An      *)
(* optional value is a sequence of length 0 (None) or 1 (Some(x)).         *)
(* Time is counted in ticks of 50 ms.                                      *)
(*                                                                         *)
(* Specifications:                                                         *)
(*   Spec        one coroutine alone on the event loop and the instance    *)
(*   SpecShared  two coroutines sharing the event loop and the instance    *)
(*   SpecLive    Spec with the fairness of the event loop and the network  *)
(*   SpecParse   the listing parsers on listing responses                  *)
(*   SpecText    the content extractors on filing texts                    *)
(***************************************************************************)
EXTENDS Integers, Sequences, FiniteSets, TLC

VARIABLES
    client,       \* the SECRealTimeScraper instance: base_url, headers, request_delay
    pc,           \* pc[t]: where coroutine t stands
    op,           \* op[t]: the call coroutine t executes, with its arguments
    idx,          \* idx[t]: position of the for loop in form_types
    all_filings,  \* all_filings[t]: the accumulator of the run
    wake,         \* wake[t]: ticks left of the asyncio.sleep the run is suspended in
    log,          \* log[t]: one record per _scrape_*_form_type call of the run
    result,       \* result[t]: what the call gave back to its caller
    running,      \* the coroutine that holds the event loop (0: the loop is idle)
    sinceCall,    \* ticks since the start of the instance's last outbound call (saturating)
    lastCaller,   \* the coroutine that issued the instance's last outbound call (0: none yet)
    issued,       \* number of outbound calls issued through the instance
    calls,        \* number of outbound calls the started operations can issue
    downloaded,   \* number of outbound calls issued through the downloader
    payload,      \* the listing response handed to the parsers
    parsed,       \* what the last parser call returned
    content,      \* the filing text handed to the extractors
    facts         \* what the last extractor call returned, and the call before it

clientVars == <<client>>
downloaderVars == <<downloaded>>
runVars == <<pc, op, idx, all_filings, wake, log, result, running>>
throttleVars == <<sinceCall, lastCaller, issued, calls>>
parseVars == <<payload, parsed>>
textVars == <<content, facts>>
vars == <<client, pc, op, idx, all_filings, wake, log, result, running,
          sinceCall, lastCaller, issued, calls, downloaded, payload, parsed, content,
          facts>>

(***************************************************************************)
(* Values and characters                                                   *)
(***************************************************************************)
None == <<>>
Some(x) == <<x>>

Min(a, b) == IF a <= b THEN a ELSE b
Max(a, b) == IF a >= b THEN a ELSE b
SetMin(S) == CHOOSE x \in S : \A y \in S : x <= y
SetMax(S) == CHOOSE x \in S : \A y \in S : x >= y

Digits == <<"0", "1", "2", "3", "4", "5", "6", "7", "8", "9">>
UpperCase == <<"A","B","C","D","E","F","G","H","I","J","K","L","M",
               "N","O","P","Q","R","S","T","U","V","W","X","Y","Z">>
LowerCase == <<"a","b","c","d","e","f","g","h","i","j","k","l","m",
               "n","o","p","q","r","s","t","u","v","w","x","y","z">>

DigitChars == {Digits[i] : i \in 1..Len(Digits)}
UpperChars == {UpperCase[i] : i \in 1..Len(UpperCase)}

\* \d
IsDigit(c) == c \in DigitChars
\* \s
IsSpace(c) == c \in {" ", "\n", "\t", "\r"}
DigitVal(c) == (CHOOSE i \in 1..Len(Digits) : Digits[i] = c) - 1
\* str.lower() on one character
Lower(c) ==
    IF c \in UpperChars
    THEN LowerCase[CHOOSE i \in 1..Len(UpperCase) : UpperCase[i] = c]
    ELSE c
LowerText(s) == [i \in 1..Len(s) |-> Lower(s[i])]

\* int() of a run of digits
RECURSIVE ToInt(_)
ToInt(s) == IF s = <<>> THEN 0
            ELSE 10 * ToInt(SubSeq(s, 1, Len(s) - 1)) + DigitVal(s[Len(s)])

RECURSIVE Pow10(_)
Pow10(n) == IF n = 0 THEN 1 ELSE 10 * Pow10(n - 1)

\* str.replace(old, '') for a one-character old
RECURSIVE RemoveChar(_, _)
RemoveChar(s, c) ==
    IF s = <<>> THEN <<>>
    ELSE IF s[1] = c THEN RemoveChar(Tail(s), c)
    ELSE <<s[1]>> \o RemoveChar(Tail(s), c)

\* the position of the first character of s that is not whitespace, Len(s) + 1
\* when there is none
RECURSIVE StripStart(_, _)
StripStart(s, i) == IF i <= Len(s) /\ IsSpace(s[i]) THEN StripStart(s, i + 1) ELSE i

\* the position of the last character of s that is not whitespace, 0 when
\* there is none
RECURSIVE StripEnd(_, _)
StripEnd(s, i) == IF i >= 1 /\ IsSpace(s[i]) THEN StripEnd(s, i - 1) ELSE i

\* str.strip()
Strip(s) == SubSeq(s, StripStart(s, 1), StripEnd(s, Len(s)))

(***************************************************************************)
(* Regular-expression pieces.  Every pattern of the source is a chain of   *)
(* greedy runs over disjoint character classes followed by a literal, so   *)
(* the greedy path is the only one that can match and re.search is the     *)
(* leftmost start position at which it does.                               *)
(***************************************************************************)
\* the position after the longest run of digits that starts at i
RECURSIVE DigitRunEnd(_, _)
DigitRunEnd(s, i) == IF i <= Len(s) /\ IsDigit(s[i]) THEN DigitRunEnd(s, i + 1) ELSE i

\* the position after the longest run of whitespace that starts at i
RECURSIVE SpaceRunEnd(_, _)
SpaceRunEnd(s, i) == IF i <= Len(s) /\ IsSpace(s[i]) THEN SpaceRunEnd(s, i + 1) ELSE i

\* the literal lit stands at position i
HasAt(s, i, lit) ==
    /\ i + Len(lit) - 1 <= Len(s)
    /\ \A k \in 1..Len(lit) : s[i + k - 1] = lit[k]

\* the same under re.IGNORECASE (lit is given in lower case)
HasAtIgnoreCase(s, i, lit) ==
    /\ i + Len(lit) - 1 <= Len(s)
    /\ \A k \in 1..Len(lit) : Lower(s[i + k - 1]) = lit[k]

\* str.split(sep)[0]
SplitFirst(s, sep) ==
    LET at == {i \in 1..Len(s) : HasAt(s, i, sep)}
    IN IF at = {} THEN s ELSE SubSeq(s, 1, SetMin(at) - 1)

\* re.search: the match at the leftmost position where M gives one
FirstMatch(s, M(_, _)) ==
    LET hits == {i \in 1..Len(s) : M(s, i) /= None}
    IN IF hits = {} THEN None ELSE M(s, SetMin(hits))

(***************************************************************************)
(* ContentExtractor: SECRealTimeScraper._analyze_filing_text               *)
(***************************************************************************)
W_percent == <<"p","e","r","c","e","n","t">>
W_shares == <<"s","h","a","r","e","s">>
W_share == <<"s","h","a","r","e">>
W_item == <<"i","t","e","m">>
W_purpose == <<"p","u","r","p","o","s","e">>

\* the position after \d+\.?\d* matched greedily from the digit at i
NumberEnd(s, i) ==
    LET j == DigitRunEnd(s, i)
        k == IF j <= Len(s) /\ s[j] = "." THEN j + 1 ELSE j
    IN DigitRunEnd(s, k)

\* r'(\d+\.?\d*)\s*%' at position i: the group, if it matches there
PercentSignAt(s, i) ==
    IF i <= Len(s) /\ IsDigit(s[i])
    THEN LET e == NumberEnd(s, i)
             m == SpaceRunEnd(s, e)
         IN IF m <= Len(s) /\ s[m] = "%" THEN Some(SubSeq(s, i, e - 1)) ELSE None
    ELSE None

\* r'(\d+\.?\d*)\s*percent' under re.IGNORECASE
PercentWordAt(s, i) ==
    IF i <= Len(s) /\ IsDigit(s[i])
    THEN LET e == NumberEnd(s, i)
             m == SpaceRunEnd(s, e)
         IN IF HasAtIgnoreCase(s, m, W_percent) THEN Some(SubSeq(s, i, e - 1)) ELSE None
    ELSE None

\* float() of a group matched by \d+\.?\d*, as the fraction num/den in lowest
\* decimal form (15.20 and 15.2 are the same float)
ToFloat(g) ==
    LET dots == {i \in 1..Len(g) : g[i] = "."}
        d == IF dots = {} THEN Len(g) + 1 ELSE SetMin(dots)
        whole == SubSeq(g, 1, d - 1)
        frac == SubSeq(g, d + 1, Len(g))
        sig == {i \in 1..Len(frac) : frac[i] /= "0"}
        kept == IF sig = {} THEN <<>> ELSE SubSeq(frac, 1, SetMax(sig))
    IN [num |-> ToInt(whole \o kept), den |-> Pow10(Len(kept))]

\* sec_scraper.py 279-289: the first pattern of percent_patterns that matches anywhere
ExtractOwnershipPercent(text) ==
    LET m1 == FirstMatch(text, PercentSignAt)
        m2 == FirstMatch(text, PercentWordAt)
    IN IF m1 /= None THEN Some(ToFloat(m1[1]))
       ELSE IF m2 /= None THEN Some(ToFloat(m2[1]))
       ELSE None

\* the position after (?:,\d{3})* matched greedily from i
RECURSIVE GroupsEnd(_, _)
GroupsEnd(s, i) ==
    IF /\ i + 3 <= Len(s)
       /\ s[i] = ","
       /\ \A k \in 1..3 : IsDigit(s[i + k])
    THEN GroupsEnd(s, i + 4)
    ELSE i

\* the position after \d{1,3}(?:,\d{3})* matched greedily from the digit at i
GroupedEnd(s, i) == GroupsEnd(s, Min(DigitRunEnd(s, i), i + 3))

\* r'(\d{1,3}(?:,\d{3})*)\s*shares' under re.IGNORECASE
GroupedSharesAt(s, i) ==
    IF i <= Len(s) /\ IsDigit(s[i])
    THEN LET e == GroupedEnd(s, i)
             m == SpaceRunEnd(s, e)
         IN IF HasAtIgnoreCase(s, m, W_shares) THEN Some(SubSeq(s, i, e - 1)) ELSE None
    ELSE None

\* r'(\d+)\s*shares' under re.IGNORECASE
PlainSharesAt(s, i) ==
    IF i <= Len(s) /\ IsDigit(s[i])
    THEN LET e == DigitRunEnd(s, i)
             m == SpaceRunEnd(s, e)
         IN IF HasAtIgnoreCase(s, m, W_shares) THEN Some(SubSeq(s, i, e - 1)) ELSE None
    ELSE None

\* share_patterns without its grouped pattern
ExtractSharesOwnedPlain(text) ==
    LET m2 == FirstMatch(text, PlainSharesAt)
    IN IF m2 /= None THEN Some(ToInt(RemoveChar(m2[1], ","))) ELSE None

\* sec_scraper.py 291-302: the first pattern of share_patterns that matches anywhere
ExtractSharesOwned(text) ==
    LET m1 == FirstMatch(text, GroupedSharesAt)
        m2 == FirstMatch(text, PlainSharesAt)
    IN IF m1 /= None THEN Some(ToInt(RemoveChar(m1[1], ",")))
       ELSE IF m2 /= None THEN Some(ToInt(RemoveChar(m2[1], ",")))
       ELSE None

\* the positions of the character c at or after p
CharFrom(s, p, c) == {i \in p..Len(s) : s[i] = c}
\* the first position of c at or after p, Len(s) + 1 when there is none
NextChar(s, p, c) == IF CharFrom(s, p, c) = {} THEN Len(s) + 1 ELSE SetMin(CharFrom(s, p, c))

\* \s*([^<]+) from position r: where the group starts, 0 when it cannot match.
\* The whitespace run is taken whole; when a "<" or the end of the text follows
\* it, the run gives its last character back to the group.
GroupStart(s, r) ==
    LET w == SpaceRunEnd(s, r)
    IN IF w <= Len(s) /\ s[w] /= "<" THEN w
       ELSE IF w > r THEN w - 1
       ELSE 0

\* [^:]*:?\s*([^<]+) with [^:]* ending before q: where the group starts, 0 when
\* it cannot match.  The colon is taken when it is there and the rest matches.
TailStartAt(s, q) ==
    IF q <= Len(s) /\ s[q] = ":" /\ GroupStart(s, q + 1) /= 0
    THEN GroupStart(s, q + 1)
    ELSE GroupStart(s, q)

\* [^:]*:?\s*([^<]+) from position p: the group, if the tail matches.  [^:]*
\* runs to the next colon or the end of the text and backs off from there.
PurposeTail(s, p) ==
    LET cmax == NextChar(s, p, ":")
        ok == {q \in p..cmax : TailStartAt(s, q) /= 0}
    IN IF ok = {} THEN None
       ELSE LET b == TailStartAt(s, SetMax(ok))
            IN Some(SubSeq(s, b, NextChar(s, b, "<") - 1))

\* Item\s*4\.?\s*Purpose under re.IGNORECASE at i: the position after it, 0 if absent
Item4PurposeEnd(s, i) ==
    IF HasAtIgnoreCase(s, i, W_item)
    THEN LET j == SpaceRunEnd(s, i + 4)
         IN IF j <= Len(s) /\ s[j] = "4"
            THEN LET k == IF j + 1 <= Len(s) /\ s[j + 1] = "." THEN j + 2 ELSE j + 1
                     m == SpaceRunEnd(s, k)
                 IN IF HasAtIgnoreCase(s, m, W_purpose) THEN m + 7 ELSE 0
            ELSE 0
    ELSE 0

\* r'Item\s*4\.?\s*Purpose[^:]*:?\s*([^<]+)'
Item4PurposeAt(s, i) ==
    IF Item4PurposeEnd(s, i) /= 0 THEN PurposeTail(s, Item4PurposeEnd(s, i)) ELSE None

\* r'Purpose[^:]*:?\s*([^<]+)'
PurposeAt(s, i) ==
    IF HasAtIgnoreCase(s, i, W_purpose) THEN PurposeTail(s, i + 7) ELSE None

\* r'Item\s*4[^:]*([^<]+)'
Item4At(s, i) ==
    IF HasAtIgnoreCase(s, i, W_item)
    THEN LET j == SpaceRunEnd(s, i + 4)
         IN IF j <= Len(s) /\ s[j] = "4"
            THEN LET cmax == NextChar(s, j + 1, ":")
                     ok == {q \in (j + 1)..Min(cmax, Len(s)) : s[q] /= "<"}
                 IN IF ok = {} THEN None
                    ELSE Some(SubSeq(s, SetMax(ok), NextChar(s, SetMax(ok), "<") - 1))
            ELSE None
    ELSE None

\* an extraction that falls back on the whole text when no pattern matches
ExtractPurposeSectionOrText(text) ==
    LET m1 == FirstMatch(text, Item4PurposeAt)
        m2 == FirstMatch(text, PurposeAt)
        m3 == FirstMatch(text, Item4At)
    IN IF m1 /= None THEN Some(Strip(m1[1]))
       ELSE IF m2 /= None THEN Some(Strip(m2[1]))
       ELSE IF m3 /= None THEN Some(Strip(m3[1]))
       ELSE Some(Strip(text))

\* purpose_patterns with the bare "Purpose" pattern tried first
ExtractPurposeSectionBareFirst(text) ==
    LET m1 == FirstMatch(text, Item4PurposeAt)
        m2 == FirstMatch(text, PurposeAt)
        m3 == FirstMatch(text, Item4At)
    IN IF m2 /= None THEN Some(Strip(m2[1]))
       ELSE IF m1 /= None THEN Some(Strip(m1[1]))
       ELSE IF m3 /= None THEN Some(Strip(m3[1]))
       ELSE None

\* sec_scraper.py 330-346: the first of the three patterns that matches anywhere
ExtractPurposeSection(text) ==
    LET m1 == FirstMatch(text, Item4PurposeAt)
        m2 == FirstMatch(text, PurposeAt)
        m3 == FirstMatch(text, Item4At)
    IN IF m1 /= None THEN Some(Strip(m1[1]))
       ELSE IF m2 /= None THEN Some(Strip(m2[1]))
       ELSE IF m3 /= None THEN Some(Strip(m3[1]))
       ELSE None

\* keyword in text
Contains(text, keyword) == \E i \in 1..Len(text) : HasAt(text, i, keyword)

ActivistKeywords == {
    <<"s","t","r","a","t","e","g","i","c"," ","a","l","t","e","r","n","a","t","i","v","e","s">>,
    <<"b","o","a","r","d"," ","r","e","p","r","e","s","e","n","t","a","t","i","o","n">>,
    <<"g","o","v","e","r","n","a","n","c","e">>,
    <<"m","a","x","i","m","i","z","e"," ","v","a","l","u","e">>,
    <<"o","p","e","r","a","t","i","o","n","a","l"," ","i","m","p","r","o","v","e","m","e","n","t","s">>,
    <<"m","a","n","a","g","e","m","e","n","t"," ","c","h","a","n","g","e","s">>}

ControlKeywords == {
    <<"c","o","n","t","r","o","l">>,
    <<"a","c","q","u","i","r","e">>,
    <<"m","e","r","g","e","r">>,
    <<"t","a","k","e","o","v","e","r">>,
    <<"p","r","o","x","y">>}

\* purpose_section[:500]
PurposeLimit == 500

\* the purpose section stored whole
ExcerptWhole(purpose_section) == purpose_section

\* purpose_section[:500]
Excerpt(purpose_section) ==
    SubSeq(purpose_section, 1, Min(Len(purpose_section), PurposeLimit))

\* any(keyword in purpose_section for keyword in keywords), without lower()
AnyKeywordCaseSensitive(purpose_section, keywords) ==
    \E k \in keywords : Contains(purpose_section, k)

\* the keywords looked for in the stored excerpt only
AnyKeywordInExcerpt(purpose_section, keywords) ==
    \E k \in keywords : Contains(LowerText(Excerpt(purpose_section)), k)

\* any(keyword in purpose_section.lower() for keyword in keywords)
AnyKeyword(purpose_section, keywords) ==
    \E k \in keywords : Contains(LowerText(purpose_section), k)

\* sec_scraper.py 266-328
AnalyzeFilingText(text) ==
    LET section == ExtractPurposeSection(text)
        found == section /= None /\ section[1] /= <<>>
    IN [ownership_percent |-> ExtractOwnershipPercent(text),
        shares_owned |-> ExtractSharesOwned(text),
        purpose |-> IF found THEN Some(Excerpt(section[1])) ELSE None,
        investment_intent |-> None,
        activist_language |-> found /\ AnyKeyword(section[1], ActivistKeywords),
        control_intent |-> found /\ AnyKeyword(section[1], ControlKeywords)]

(***************************************************************************)
(* Dates: datetime.fromisoformat (feed entries) and datetime.strptime      *)
(* (table rows).  A parse that raises ValueError gives None.               *)
(***************************************************************************)
IsLeap(y) == (y % 4 = 0 /\ y % 100 /= 0) \/ y % 400 = 0
DaysInMonth(y, m) ==
    IF m = 2 THEN (IF IsLeap(y) THEN 29 ELSE 28)
    ELSE IF m \in {4, 6, 9, 11} THEN 30 ELSE 31
ValidDate(y, m, d) == y \in 1..9999 /\ m \in 1..12 /\ d \in 1..DaysInMonth(y, m)

\* the n characters at i are digits
DigitsAt(s, i, n) == i + n - 1 <= Len(s) /\ \A k \in i..(i + n - 1) : IsDigit(s[k])
\* the character c stands at i
CharAt(s, i, c) == i >= 1 /\ i <= Len(s) /\ s[i] = c

\* strptime's %m at i, 1[0-2]|0[1-9]|[1-9]: <<month, position after it>>
MonthAt(s, i) ==
    {p \in (1..12) \X {i + 1, i + 2} :
        /\ DigitsAt(s, i, p[2] - i)
        /\ ToInt(SubSeq(s, i, p[2] - 1)) = p[1]
        /\ (p[2] = i + 1 => s[i] /= "0")}

\* strptime's %d at i, 3[01]|[12]\d|0[1-9]|[1-9]| [1-9]: <<day, position after it>>
DayAt(s, i) ==
    {p \in (1..31) \X {i + 1, i + 2} :
        \/ /\ DigitsAt(s, i, p[2] - i)
           /\ ToInt(SubSeq(s, i, p[2] - 1)) = p[1]
           /\ (p[2] = i + 1 => s[i] /= "0")
        \/ /\ p[2] = i + 2
           /\ CharAt(s, i, " ")
           /\ DigitsAt(s, i + 1, 1)
           /\ s[i + 1] /= "0"
           /\ ToInt(SubSeq(s, i + 1, i + 1)) = p[1]}

\* a calendar date <<y, m, d>>, or None where datetime() raises ValueError
MakeDate(y, m, d) == IF ValidDate(y, m, d) THEN Some(<<y, m, d>>) ELSE None

\* datetime.strptime(s, '%Y-%m-%d'); the whole string has to be consumed
StrptimeYMD(s) ==
    LET ms == IF DigitsAt(s, 1, 4) /\ CharAt(s, 5, "-") THEN MonthAt(s, 6) ELSE {}
        ok == UNION {{<<pm[1], pd[1]>> :
                        pd \in {q \in DayAt(s, pm[2] + 1) : q[2] = Len(s) + 1}} :
                     pm \in {q \in ms : CharAt(s, q[2], "-")}}
    IN IF ok = {} THEN None
       ELSE LET c == CHOOSE c \in ok : TRUE
            IN MakeDate(ToInt(SubSeq(s, 1, 4)), c[1], c[2])

\* datetime.strptime(s, '%m/%d/%Y')
StrptimeMDY(s) ==
    LET ok == UNION {{<<pm[1], pd[1]>> :
                        pd \in {q \in DayAt(s, pm[2] + 1) :
                                    /\ CharAt(s, q[2], "/")
                                    /\ DigitsAt(s, q[2] + 1, 4)
                                    /\ q[2] + 4 = Len(s)}} :
                     pm \in {q \in MonthAt(s, 1) : CharAt(s, q[2], "/")}}
    IN IF ok = {} THEN None
       ELSE LET c == CHOOSE c \in ok : TRUE
            IN MakeDate(ToInt(SubSeq(s, Len(s) - 3, Len(s))), c[1], c[2])

\* a parse that knows the first format only
ParseDateIsoOnly(date_str) == StrptimeYMD(date_str)

\* sec_scraper.py 236-246
ParseDate(date_str) ==
    IF StrptimeYMD(date_str) /= None THEN StrptimeYMD(date_str)
    ELSE StrptimeMDY(date_str)

\* str.replace('Z', '+00:00')
RECURSIVE ReplaceZ(_)
ReplaceZ(s) ==
    IF s = <<>> THEN <<>>
    ELSE IF s[1] = "Z" THEN <<"+","0","0",":","0","0">> \o ReplaceZ(Tail(s))
    ELSE <<s[1]>> \o ReplaceZ(Tail(s))

\* HH, HH:MM or HH:MM:SS with every field in range: <<h, m, s>>, or None
ClockFields(t) ==
    LET shape == /\ Len(t) \in {2, 5, 8}
                 /\ DigitsAt(t, 1, 2)
                 /\ (Len(t) >= 5 => CharAt(t, 3, ":") /\ DigitsAt(t, 4, 2))
                 /\ (Len(t) >= 8 => CharAt(t, 6, ":") /\ DigitsAt(t, 7, 2))
        h == ToInt(SubSeq(t, 1, 2))
        m == IF Len(t) >= 5 THEN ToInt(SubSeq(t, 4, 5)) ELSE 0
        sec == IF Len(t) >= 8 THEN ToInt(SubSeq(t, 7, 8)) ELSE 0
    IN IF shape /\ h <= 23 /\ m <= 59 /\ sec <= 59 THEN Some(<<h, m, sec>>) ELSE None

\* datetime.fromisoformat, for the forms every Python 3.7+ accepts without a
\* fraction of a second: YYYY-MM-DD, then optionally any one separator
\* character, a time HH[:MM[:SS]] and an offset +HH:MM or -HH:MM.  The value is
\* [date, time, tz], tz being the offset in minutes when one is given.
FromIsoFormat(s) ==
    LET dateOk == /\ Len(s) >= 10
                  /\ DigitsAt(s, 1, 4) /\ CharAt(s, 5, "-")
                  /\ DigitsAt(s, 6, 2) /\ CharAt(s, 8, "-")
                  /\ DigitsAt(s, 9, 2)
        date == IF dateOk
                THEN MakeDate(ToInt(SubSeq(s, 1, 4)), ToInt(SubSeq(s, 6, 7)),
                              ToInt(SubSeq(s, 9, 10)))
                ELSE None
        tstr == IF Len(s) >= 12 THEN SubSeq(s, 12, Len(s)) ELSE <<>>
        signs == {i \in 1..Len(tstr) : tstr[i] \in {"+", "-"}}
        cut == IF signs = {} THEN Len(tstr) + 1 ELSE SetMin(signs)
        time == ClockFields(SubSeq(tstr, 1, cut - 1))
        off == ClockFields(SubSeq(tstr, cut + 1, Len(tstr)))
        sign == IF cut <= Len(tstr) /\ tstr[cut] = "-" THEN -1 ELSE 1
    IN IF date = None \/ Len(s) = 11 THEN None
       ELSE IF Len(s) = 10 THEN Some([date |-> date[1], time |-> <<0, 0, 0>>, tz |-> None])
       ELSE IF time = None THEN None
       ELSE IF signs = {} THEN Some([date |-> date[1], time |-> time[1], tz |-> None])
       ELSE IF off = None \/ Len(tstr) - cut /= 5 THEN None
       ELSE Some([date |-> date[1], time |-> time[1],
                  tz |-> Some(sign * (60 * off[1][1] + off[1][2]))])

(***************************************************************************)
(* URLs: urllib.parse.urljoin against base_url                             *)
(***************************************************************************)
\* the position of the colon that ends the scheme of the reference, 0 when it
\* has none (a scheme is taken to be letters only)
SchemeEnd(href) ==
    LET colons == {i \in 2..Len(href) : href[i] = ":"}
        c == IF colons = {} THEN 0 ELSE SetMin(colons)
        letters == \A k \in 1..(c - 1) :
                       \E j \in 1..Len(LowerCase) : LowerCase[j] = Lower(href[k])
    IN IF c /= 0 /\ letters THEN c ELSE 0

\* the position after the "//" that starts the network location, 0 when the
\* reference has none
NetlocStart(href) ==
    LET from == SchemeEnd(href) + 1
    IN IF CharAt(href, from, "/") /\ CharAt(href, from + 1, "/") THEN from + 2 ELSE 0

\* the network location of the reference
Netloc(href) ==
    LET b == NetlocStart(href)
        stops == {i \in b..Len(href) : href[i] \in {"/", "?", "#"}}
    IN IF b = 0 THEN <<>>
       ELSE SubSeq(href, b, IF stops = {} THEN Len(href) ELSE SetMin(stops) - 1)

\* urlsplit raises ValueError('Invalid IPv6 URL') on a network location with
\* one bracket and not the other
UrlJoinRaises(href) ==
    LET n == Netloc(href)
        open == \E i \in 1..Len(n) : n[i] = "["
        close == \E i \in 1..Len(n) : n[i] = "]"
    IN open /= close

\* urljoin(base, href) for a base without a path, and a reference without dot
\* segments: an empty reference gives the base, a reference with a scheme is
\* itself, one with a network location takes the scheme of the base, one
\* with an absolute path takes its origin, any other is put under the root
UrlJoin(base, href) ==
    IF href = <<>> THEN base
       ELSE IF SchemeEnd(href) /= 0 THEN href
       ELSE IF NetlocStart(href) /= 0 THEN SubSeq(base, 1, NextChar(base, 1, ":")) \o href
       ELSE IF href[1] \in {"/", "?", "#"} THEN base \o href
       ELSE base \o <<"/">> \o href

(***************************************************************************)
(* SECFilingDownloader.parse_filing_content                                *)
(***************************************************************************)
\* content.split('\n')
RECURSIVE SplitLines(_)
SplitLines(text) ==
    LET nl == {i \in 1..Len(text) : text[i] = "\n"}
    IN IF nl = {} THEN <<text>>
       ELSE <<SubSeq(text, 1, SetMin(nl) - 1)>>
            \o SplitLines(SubSeq(text, SetMin(nl) + 1, Len(text)))

\* ' '.join(lines)
RECURSIVE JoinLines(_)
JoinLines(lines) ==
    IF Len(lines) = 1 THEN lines[1]
    ELSE lines[1] \o <<" ">> \o JoinLines(Tail(lines))

\* lines[:50]
HeaderLines == 50

K_form_type == <<"F","O","R","M"," ","T","Y","P","E",":">>
K_company == <<"C","O","M","P","A","N","Y"," ","C","O","N","F","O","R","M","E","D"," ","N","A","M","E",":">>
K_filed == <<"F","I","L","E","D"," ","A","S"," ","O","F"," ","D","A","T","E",":">>

\* line.split(key)[1].strip(), for a line that holds the key
AfterKey(line, key) ==
    LET rest == SubSeq(line, SetMin({i \in 1..Len(line) : HasAt(line, i, key)}) + Len(key),
                       Len(line))
    IN Strip(SplitFirst(rest, key))

\* datetime.strptime(s, '%Y%m%d'): the pattern takes the longer month and then
\* the longer day where it can, and the whole string has to be consumed
StrptimeCompact(s) ==
    LET ms == IF DigitsAt(s, 1, 4) THEN MonthAt(s, 5) ELSE {}
        ok == {c \in ms \X ((1..31) \X (1..(Len(s) + 1))) : c[2] \in DayAt(s, c[1][2])}
    IN IF ok = {} THEN None
       ELSE LET mend == SetMax({c[1][2] : c \in ok})
                dend == SetMax({c[2][2] : c \in {x \in ok : x[1][2] = mend}})
                c == CHOOSE c \in ok : c[1][2] = mend /\ c[2][2] = dend
            IN IF dend = Len(s) + 1
               THEN MakeDate(ToInt(SubSeq(s, 1, 4)), c[1][1], c[2][1])
               ELSE None

\* sec_downloader.py 53-64: the header fields after the loop over lines[:50];
\* a later line overwrites the field an earlier one set, and a date that does
\* not parse leaves the field as it was
RECURSIVE HeaderFields(_, _)
HeaderFields(lines, info) ==
    IF lines = <<>> THEN info
    ELSE LET line == lines[1]
             next ==
                 IF Contains(line, K_form_type)
                 THEN [info EXCEPT !.form_type = Some(AfterKey(line, K_form_type))]
                 ELSE IF Contains(line, K_company)
                 THEN [info EXCEPT !.company_name = Some(AfterKey(line, K_company))]
                 ELSE IF Contains(line, K_filed)
                      /\ StrptimeCompact(AfterKey(line, K_filed)) /= None
                 THEN [info EXCEPT !.filing_date = StrptimeCompact(AfterKey(line, K_filed))]
                 ELSE info
         IN HeaderFields(Tail(lines), next)

\* r'(\d{1,3}(?:,\d{3})*)\s*shares?' under re.IGNORECASE
GroupedShareAt(s, i) ==
    IF i <= Len(s) /\ IsDigit(s[i])
    THEN LET e == GroupedEnd(s, i)
             m == SpaceRunEnd(s, e)
         IN IF HasAtIgnoreCase(s, m, W_share) THEN Some(SubSeq(s, i, e - 1)) ELSE None
    ELSE None

\* sec_downloader.py 37-80
ParseFilingContent(text, accession_number) ==
    LET lines == SplitLines(text)
        full_text == JoinLines(lines)
        percent_match == FirstMatch(full_text, PercentSignAt)
        shares_match == FirstMatch(full_text, GroupedShareAt)
        filing_info == [accession_number |-> accession_number,
                        raw_content |-> text,
                        form_type |-> None,
                        company_name |-> None,
                        filing_date |-> None,
                        owner_name |-> None,
                        shares_owned |-> None,
                        ownership_percent |-> None,
                        purpose |-> None]
        header == HeaderFields(SubSeq(lines, 1, Min(Len(lines), HeaderLines)), filing_info)
    IN [header EXCEPT
          !.ownership_percent = IF percent_match /= None
                                THEN Some(ToFloat(percent_match[1])) ELSE None,
          !.shares_owned = IF shares_match /= None
                           THEN Some(ToInt(RemoveChar(shares_match[1], ","))) ELSE None]

(***************************************************************************)
(* ListingParser.  A listing response is [entries, tables]: the <entry>    *)
(* elements and the <table> elements BeautifulSoup finds in it.            *)
(*   entry: [title, updated: optional text; link: None (no <link>),        *)
(*           Some(None) (a <link> without href) or Some(Some(href));       *)
(*           summary: the remaining text of the entry]                     *)
(*   table: [class, rows]; a row is the sequence of its <td> cells         *)
(*   cell:  [text; a: None (no <a>), Some(None) or Some(Some(href))]       *)
(***************************************************************************)
W_cik == <<"C","I","K",":"," ">>
W_sep == <<" ","-"," ">>
W_unknown == <<"U","n","k","n","o","w","n">>

\* entry.text: the text of the children, in the order title, summary, updated
EntryText(entry) ==
    (IF entry.title /= None THEN entry.title[1] ELSE <<>>)
    \o entry.summary
    \o (IF entry.updated /= None THEN entry.updated[1] ELSE <<>>)

\* r'CIK: (\d+)' at position i
CikAt(s, i) ==
    IF HasAt(s, i, W_cik) /\ DigitsAt(s, i + 5, 1)
    THEN Some(SubSeq(s, i + 5, DigitRunEnd(s, i + 5) - 1))
    ELSE None

\* r'/(\d{10}-\d{2}-\d{6})/' at position i
AccessionAt(s, i) ==
    IF /\ CharAt(s, i, "/")
       /\ DigitsAt(s, i + 1, 10)
       /\ CharAt(s, i + 11, "-")
       /\ DigitsAt(s, i + 12, 2)
       /\ CharAt(s, i + 14, "-")
       /\ DigitsAt(s, i + 15, 6)
       /\ CharAt(s, i + 21, "/")
    THEN Some(SubSeq(s, i + 1, i + 20))
    ELSE None

\* link and link.get('href'): the href, when the entry has a link with a
\* non-empty one
EntryHref(entry) ==
    IF entry.link /= None /\ entry.link[1] /= None /\ entry.link[1][1] /= <<>>
    THEN Some(entry.link[1][1])
    ELSE None

\* sec_scraper.py 118, 127: fromisoformat or urljoin raises on the entry
EntryRaises(entry) ==
    \/ entry.updated /= None /\ FromIsoFormat(ReplaceZ(entry.updated[1])) = None
    \/ EntryHref(entry) /= None /\ UrlJoinRaises(EntryHref(entry)[1])

\* sec_scraper.py 109-141: the reference of an entry that does not raise
FilingData(entry, form_type, base_url) ==
    LET href == EntryHref(entry)
    IN [form_type |-> form_type,
        company_name |-> IF entry.title /= None
                         THEN SplitFirst(entry.title[1], W_sep)
                         ELSE W_unknown,
        cik |-> IF EntryText(entry) /= <<>>
                THEN FirstMatch(EntryText(entry), CikAt)
                ELSE None,
        filing_date |-> IF entry.updated /= None
                        THEN FromIsoFormat(ReplaceZ(entry.updated[1]))
                        ELSE None,
        accession_number |-> IF href /= None
                             THEN FirstMatch(href[1], AccessionAt)
                             ELSE None,
        url |-> IF href /= None THEN Some(UrlJoin(base_url, href[1])) ELSE None,
        source |-> "SEC_EDGAR_REALTIME"]

\* a parser that drops the entries it finds no accession number for
ExtractFilingDataStrict(entry, form_type, base_url) ==
    IF \/ EntryRaises(entry)
       \/ FilingData(entry, form_type, base_url).accession_number = None
    THEN None
    ELSE Some(FilingData(entry, form_type, base_url))

\* sec_scraper.py 104-146: Some(reference), or None when the handler returns None
ExtractFilingData(entry, form_type, base_url) ==
    IF EntryRaises(entry) THEN None ELSE Some(FilingData(entry, form_type, base_url))

\* sec_scraper.py 94-97: the loop over the entries
RECURSIVE ExtractEntries(_, _, _)
ExtractEntries(entries, form_type, base_url) ==
    IF entries = <<>> THEN <<>>
    ELSE ExtractFilingData(Head(entries), form_type, base_url)
         \o ExtractEntries(Tail(entries), form_type, base_url)

\* a parse that keeps one reference per accession identifier
ParseEdgarResponseDedup(body, form_type, base_url) ==
    LET refs == ExtractEntries(body.entries, form_type, base_url)
        first(i) == \A j \in 1..(i - 1) :
                        refs[j].accession_number /= refs[i].accession_number
        kept == {i \in 1..Len(refs) : first(i)}
        nth(n) == CHOOSE i \in kept : Cardinality({j \in kept : j < i}) = n - 1
    IN [n \in 1..Cardinality(kept) |-> refs[nth(n)]]

\* sec_scraper.py 82-102
ParseEdgarResponse(body, form_type, base_url) ==
    ExtractEntries(body.entries, form_type, base_url)

\* sec_scraper.py 225-227: urljoin raises on the link of the row
RowRaises(cells) ==
    /\ cells[2].a /= None
    /\ cells[2].a[1] /= None
    /\ UrlJoinRaises(cells[2].a[1][1])

\* sec_scraper.py 215-227: the reference of a row of five or more cells
RowData(cells, form_type, cik, base_url) ==
    LET data == [form_type |-> form_type,
                 cik |-> cik,
                 filing_date |-> ParseDate(Strip(cells[4].text)),
                 accession_number |-> Strip(cells[5].text),
                 description |-> Strip(cells[3].text),
                 source |-> "SEC_EDGAR_COMPANY_SPECIFIC"]
        link == cells[2].a
    IN IF link = None THEN data
       ELSE [url |-> UrlJoin(base_url, IF link[1] = None THEN <<>> ELSE link[1][1])]
            @@ data

\* sec_scraper.py 211-229: the rows in turn; a row that raises ends the loop
\* with what was appended before it (the handler is outside the loop)
RECURSIVE ParseRows(_, _, _, _, _)
ParseRows(rows, form_type, cik, base_url, filings) ==
    IF rows = <<>> THEN filings
    ELSE IF Len(Head(rows)) < 5
         THEN ParseRows(Tail(rows), form_type, cik, base_url, filings)
    ELSE IF RowRaises(Head(rows)) THEN filings
    ELSE ParseRows(Tail(rows), form_type, cik, base_url,
                   Append(filings, RowData(Head(rows), form_type, cik, base_url)))

\* sec_scraper.py 206-209: the rows of every table of class tableFile2, each
\* table without its first row, in document order
RECURSIVE CandidateRows(_)
CandidateRows(tables) ==
    IF tables = <<>> THEN <<>>
    ELSE (IF Head(tables).class = "tableFile2" /\ Head(tables).rows /= <<>>
          THEN Tail(Head(tables).rows)
          ELSE <<>>)
         \o CandidateRows(Tail(tables))

\* sec_scraper.py 196-234
ParseCompanyFilingsResponse(body, form_type, cik, base_url) ==
    ParseRows(CandidateRows(body.tables), form_type, cik, base_url, <<>>)

(***************************************************************************)
(* Listing responses the parsers are run on                                *)
(***************************************************************************)
\* bounds: a feed of up to MaxEntries entries, a table of up to MaxRows rows
MaxEntries == 3
MaxRows == 3

SeqsUpTo(S, n) == UNION {[1..k -> S] : k \in 0..n}

\* "/d/0001234567-24-000001/"
H_acc == <<"/","d","/","0","0","0","1","2","3","4","5","6","7","-","2","4","-","0","0","0","0","0","1","/">>
\* "/a/x/0007654321-23-000009/i.htm"
H_acc2 == <<"/","a","/","x","/","0","0","0","7","6","5","4","3","2","1","-","2","3","-","0","0","0","0","0","9","/","i",".","h","t","m">>
\* "/d/0001234567-24-000001-index.htm": the identifier is not followed by "/"
H_index == <<"/","d","/","0","0","0","1","2","3","4","5","6","7","-","2","4","-","0","0","0","0","0","1","-","i","n","d","e","x",".","h","t","m">>
\* "/d/001234567-24-000001/": nine digits
H_nine == <<"/","d","/","0","0","1","2","3","4","5","6","7","-","2","4","-","0","0","0","0","0","1","/">>
\* "//[": a network location urlsplit rejects
H_bracket == <<"/","/","[">>
H_doc == <<"/","d","o","c","1",".","h","t","m">>

Entry(title, updated, link, summary) ==
    [title |-> title, updated |-> updated, link |-> link, summary |-> summary]

E_good == Entry(Some(<<"A","c","m","e"," ","C","o","r","p"," ","-"," ","S","C"," ","1","3","D">>), Some(<<"2","0","2","4","-","0","1","-","1","5","T","1","0",":","0","0",":","0","0","Z">>),
                Some(Some(H_acc)), <<"C","I","K",":"," ","1","2","3","4","5","6","7"," ","f","i","l","e","d">>)
E_good2 == Entry(Some(<<"B","e","t","a"," ","L","L","C"," ","-"," ","S","C"," ","1","3","G","/","A"," ","-"," ","a","m","e","n","d","e","d">>), Some(<<"2","0","2","4","-","0","1","-","1","6">>),
                 Some(Some(H_acc2)), <<>>)
E_nolink == Entry(Some(<<"G","a","m","m","a"," ","I","n","c">>), Some(<<"2","0","2","4","-","0","1","-","1","7","T","0","9",":","3","0",":","0","0","-","0","5",":","0","0">>), None, <<>>)
E_nohref == Entry(None, None, Some(None), <<"C","I","K",":"," ","x">>)
E_index == Entry(Some(<<"A","c","m","e"," ","C","o","r","p"," ","-"," ","S","C"," ","1","3","D">>), None, Some(Some(H_index)), <<>>)
E_nine == Entry(None, Some(<<"2","0","2","4","-","0","1","-","1","6">>), Some(Some(H_nine)), <<>>)
\* an <updated> that fromisoformat rejects
E_baddate == Entry(Some(<<"D","e","l","t","a"," ","-"," ","S","C"," ","1","3","D">>), Some(<<"y","e","s","t","e","r","d","a","y">>), Some(Some(H_acc)), <<>>)
\* a link that urljoin rejects
E_badurl == Entry(Some(<<"D","e","l","t","a"," ","-"," ","S","C"," ","1","3","D">>), None, Some(Some(H_bracket)), <<>>)

Entries == {E_good, E_good2, E_nolink, E_nohref, E_index, E_nine, E_baddate, E_badurl}

Cell(text, a) == [text |-> text, a |-> a]

\* the columns of the listing: form, documents link, description, date, number
R_good == <<Cell(<<"S","C"," ","1","3","D">>, None), Cell(<<"D","o","c","u","m","e","n","t","s">>, Some(Some(H_doc))),
            Cell(<<" ","G","e","n","e","r","a","l"," ","s","t","a","t","e","m","e","n","t"," ">>, None), Cell(<<"2","0","2","4","-","0","1","-","1","5">>, None),
            Cell(<<" ","0","0","0","1","2","3","4","5","6","7","-","2","4","-","0","0","0","0","0","1"," ">>, None)>>
R_us == <<Cell(<<"S","C"," ","1","3","G">>, None), Cell(<<"D","o","c","u","m","e","n","t","s">>, Some(None)),
          Cell(<<"P","a","s","s","i","v","e">>, None), Cell(<<" ","0","1","/","1","5","/","2","0","2","4">>, None),
          Cell(<<"0","0","0","7","6","5","4","3","2","1","-","2","3","-","0","0","0","0","0","9">>, None), Cell(<<"1","2"," ","K","B">>, None)>>
\* a file number in the fifth column and a day the month does not have
R_file == <<Cell(<<"S","C"," ","1","3","D">>, None), Cell(<<>>, None), Cell(<<"A","m","e","n","d","m","e","n","t">>, None),
            Cell(<<"2","0","2","4","-","0","2","-","3","0">>, None), Cell(<<"0","0","5","-","1","2","3","4","5">>, None)>>
R_four == <<Cell(<<"S","C"," ","1","3","D">>, None), Cell(<<"D","o","c","u","m","e","n","t","s">>, Some(Some(H_doc))),
            Cell(<<"S","h","o","r","t">>, None), Cell(<<"2","0","2","4","-","0","1","-","1","5">>, None)>>
\* a documents link that urljoin rejects
R_badlink == <<Cell(<<"S","C"," ","1","3","D">>, None), Cell(<<"D","o","c","u","m","e","n","t","s">>, Some(Some(H_bracket))),
               Cell(<<"B","r","o","k","e","n">>, None), Cell(<<"2","0","2","4","-","0","1","-","1","5">>, None),
               Cell(<<"0","0","0","1","2","3","4","5","6","7","-","2","4","-","0","0","0","0","0","2">>, None)>>
\* a row of <th> cells
R_head == <<>>

Rows == {R_head, R_good, R_us, R_file, R_four, R_badlink}

Feeds == SeqsUpTo(Entries, MaxEntries)
FileTables == {[class |-> "tableFile2", rows |-> r] : r \in SeqsUpTo(Rows, MaxRows)}
T_layout == [class |-> "layout", rows |-> <<R_head, R_good>>]
T_first == [class |-> "tableFile2", rows |-> <<R_head, R_us>>]
T_second == [class |-> "tableFile2", rows |-> <<R_head, R_good, R_file>>]

Body(entries, tables) == [entries |-> entries, tables |-> tables]

Payloads ==
    {Body(f, <<>>) : f \in Feeds}
    \cup {Body(<<>>, <<t>>) : t \in FileTables}
    \cup {Body(<<>>, <<T_layout, T_first, T_second>>),
          Body(<<E_good, E_nolink>>, <<T_layout, T_second>>)}

FormTypes == {"13D", "13G", "13G/A"}
Ciks == {"0001234567"}

(***************************************************************************)
(* ThrottledClient and FilingOrchestrator: the coroutines of               *)
(* SECRealTimeScraper on one event loop, and SECFilingDownloader           *)
(***************************************************************************)
\* request_delay = 0.1 s, in ticks of 50 ms
RequestDelay == 2
\* bound: a blocking requests.get takes 0..MaxFetchTicks ticks
MaxFetchTicks == 1
\* bound: the outbound calls of one behaviour
MaxCalls == 3

\* coroutines (asyncio tasks) that share the scraper instance and the loop
Tasks == {1, 2}

BaseUrl == <<"h","t","t","p","s",":","/","/","w","w","w",".","s","e","c",".","g","o","v">>
ScraperHeaders ==
    [User_Agent |-> <<"T","r","a","d","i","n","g"," ","S","i","g","n","a","l"," ","A","n","a","l","y","z","e","r"," ","c","o","n","t","a","c","t","@","e","x","a","m","p","l","e",".","c","o","m">>,
     Accept_Encoding |-> "gzip, deflate",
     Host |-> <<"w","w","w",".","s","e","c",".","g","o","v">>]

\* sec_downloader.py 10-14: the headers of the SECFilingDownloader instance
DownloaderHeaders ==
    [User_Agent |-> <<"S","E","C"," ","A","n","a","l","y","s","i","s"," ","B","o","t"," ","c","o","n","t","a","c","t","@","e","x","a","m","p","l","e",".","c","o","m">>,
     Accept_Encoding |-> "gzip, deflate",
     Host |-> <<"w","w","w",".","s","e","c",".","g","o","v">>]

\* a document fetch that passes no headers argument and so carries what the
\* library sends by itself
RequestHeadersOmitted(name) ==
    IF name = "download_filing" THEN DownloaderHeaders
    ELSE IF name = "analyze_filing_content"
         THEN [User_Agent |-> <<"p","y","t","h","o","n","-","r","e","q","u","e","s","t","s">>,
              Accept_Encoding |-> "gzip, deflate",
              Host |-> <<>>]
         ELSE client.headers

\* the headers argument of the requests.get of operation name:
\* headers=self.headers of the instance the operation belongs to
\* (sec_scraper.py 71, 186, 254; sec_downloader.py 28)
RequestHeaders(name) ==
    IF name = "download_filing" THEN DownloaderHeaders ELSE client.headers

\* sec_scraper.py 31-32, 152-153
DefaultFormTypes == <<"13D", "13G", "13G/A">>

\* a test of the argument for falsehood: the empty list is given the defaults
FormTypesForFalsy(arg) ==
    IF arg = None \/ arg[1] = <<>> THEN DefaultFormTypes ELSE arg[1]

\* sec_scraper.py 31-32, 152-153: 'if form_types is None', the list the loop
\* runs over
FormTypesFor(arg) ==
    IF arg = None THEN DefaultFormTypes ELSE arg[1]

\* the form_types argument: None, or Some(list)
FormTypeArgs ==
    {None, Some(<<>>), Some(<<"13G">>), Some(<<"13G/A", "13D">>)}

\* How requests.get and raise_for_status end:
\*   "ok"          a 2xx response
\*   "http_error"  a non-2xx response: raise_for_status raises HTTPError
\*   "transport"   ConnectionError or Timeout
\*   "unexpected"  an exception that is no RequestException
\* The first three failures are subclasses of requests.RequestException.
Outcomes == {"ok", "http_error", "transport", "unexpected"}
RequestExceptions == {"http_error", "transport"}

\* listing bodies the registry answers a run with
RunBodies == {Body(<<>>, <<>>), Body(<<E_nolink, E_baddate>>, <<T_first>>)}
Responses ==
    {[outcome |-> "ok", body |-> b] : b \in RunBodies}
    \cup {[outcome |-> o, body |-> Body(<<>>, <<>>)] : o \in Outcomes \ {"ok"}}

\* filing documents the registry answers a document fetch with
DocTexts == {<<"o","w","n","s"," ","1",",","5","0","0",",","0","0","0"," ","s","h","a","r","e","s"," ","r","e","p","r","e","s","e","n","t","i","n","g"," ","1","5",".","2","%"," ","o","f"," ","t","h","e"," ","o","u","t","s","t","a","n","d","i","n","g"," ","s","h","a","r","e","s">>,
             <<"I","t","e","m"," ","4","."," ","P","u","r","p","o","s","e",":"," ","c","o","n","t","r","o","l","<">>}
DocResponses ==
    {[outcome |-> "ok", text |-> x] : x \in DocTexts}
    \cup {[outcome |-> o, text |-> <<>>] : o \in Outcomes \ {"ok"}}

\* a fetch layer that lets every failure of the request escape
ScrapeFormTypeRaising(form_type, response, base_url) ==
    IF response.outcome = "ok"
    THEN [raised |-> FALSE,
          filings |-> ParseEdgarResponse(response.body, form_type, base_url)]
    ELSE [raised |-> TRUE, filings |-> <<>>]

\* sec_scraper.py 47-80: what _scrape_form_type gives its caller; only a
\* RequestException is handled, and then the empty list is returned
ScrapeFormType(form_type, response, base_url) ==
    IF response.outcome = "ok"
    THEN [raised |-> FALSE,
          filings |-> ParseEdgarResponse(response.body, form_type, base_url)]
    ELSE IF response.outcome \in RequestExceptions
    THEN [raised |-> FALSE, filings |-> <<>>]
    ELSE [raised |-> TRUE, filings |-> <<>>]

\* sec_scraper.py 168-194
ScrapeCompanyFormType(cik, form_type, response, base_url) ==
    IF response.outcome = "ok"
    THEN [raised |-> FALSE,
          filings |-> ParseCompanyFilingsResponse(response.body, form_type, cik, base_url)]
    ELSE IF response.outcome \in RequestExceptions
    THEN [raised |-> FALSE, filings |-> <<>>]
    ELSE [raised |-> TRUE, filings |-> <<>>]

\* all_filings = filings in the place of extend: what came before is dropped
Assign(acc, filings) == filings

\* an accumulator that puts the newer references in front
Prepend(acc, filings) == filings \o acc

\* an accumulator kept on the instance: a run that starts goes on from what
\* the first run has gathered
ExtendShared(acc, filings) ==
    (IF acc = <<>> THEN all_filings[1] ELSE acc) \o filings

\* sec_scraper.py 39, 160: all_filings.extend(filings)
Extend(acc, filings) == acc \o filings

\* 'break' in the place of 'continue': the loop is left
BreakAt(i, n) == n + 1

\* sec_scraper.py 41-43, 162-164: 'continue' after an exception of form type i
\* of n goes on with the next form type
ContinueAt(i, n) == i + 1

\* sec_scraper.py 41, 162: 'except Exception' handles every Exception;
\* asyncio.CancelledError is a BaseException (Python 3.8 and later) and is not
HandledByRun(exception) == exception /= "CancelledError"

\* sec_scraper.py 248-264: what analyze_filing_content returns; every
\* Exception is handled and gives the empty dict
EmptyDict == [k \in {} |-> None]
\* a handler that answers a failure with the record of the six defaults
AnalyzeFilingContentDefaults(response) ==
    IF response.outcome = "ok" THEN AnalyzeFilingText(response.text)
    ELSE [ownership_percent |-> None, shares_owned |-> None, purpose |-> None,
          investment_intent |-> None, activist_language |-> FALSE, control_intent |-> FALSE]

AnalyzeFilingContentResult(response) ==
    IF response.outcome = "ok" THEN AnalyzeFilingText(response.text) ELSE EmptyDict

\* sec_downloader.py 16-35: what download_filing gives its caller; only a
\* RequestException is handled, and then None is returned
DownloadFilingResult(accession_number, response) ==
    IF response.outcome = "ok"
    THEN [raised |-> FALSE,
          value |-> Some(ParseFilingContent(response.text, accession_number))]
    ELSE IF response.outcome \in RequestExceptions
    THEN [raised |-> FALSE, value |-> None]
    ELSE [raised |-> TRUE, value |-> None]

\* accession numbers download_filing is called with
Accessions == {<<"0","0","0","7","6","5","4","3","2","1","-","2","3","-","0","0","0","0","0","9">>}

NoOp == [name |-> "none", arg |-> None, form_types |-> <<>>, cik |-> ""]
Pending == [status |-> "pending", value |-> <<>>]
Returned(v) == [status |-> "returned", value |-> v]
Raised(e) == [status |-> "raised", value |-> <<>>, error |-> e]

\* a timer that never runs down
SleptNever(d) == wake

\* d ticks pass for the coroutines suspended in asyncio.sleep
Slept(d) == [t \in Tasks |-> Max(wake[t] - d, 0)]

\* the request sent once more after the first
OutboundCallTwice(t, d) ==
    /\ issued' = issued + 2
    /\ lastCaller' = t
    /\ sinceCall' = Min(d, client.request_delay)

\* an outbound call through the scraper instance starts now, issued by t, and
\* blocks the loop for d ticks
OutboundCall(t, d) ==
    /\ issued' = issued + 1
    /\ lastCaller' = t
    /\ sinceCall' = Min(d, client.request_delay)

\* The idle loop takes up coroutine t.  The coroutines are interchangeable,
\* so they are taken up in the order of their numbers.
MayStart(t) ==
    /\ pc[t] = "idle"
    /\ running = 0
    /\ \A u \in Tasks : u < t => pc[u] /= "idle"

\* get_recent_filings(form_types=arg) or get_company_filings(cik, arg) is
\* started on the loop: lines 31-34, 152-155
StartRun(t, name, cik, arg) ==
    LET form_types == FormTypesFor(arg)
    IN /\ MayStart(t)
       /\ calls + Len(form_types) <= MaxCalls
       /\ calls' = calls + Len(form_types)
       /\ op' = [op EXCEPT ![t] = [name |-> name, arg |-> arg,
                                   form_types |-> form_types, cik |-> cik]]
       /\ pc' = [pc EXCEPT ![t] = "loop"]
       /\ running' = t
       /\ idx' = [idx EXCEPT ![t] = 1]
       /\ all_filings' = [all_filings EXCEPT ![t] = <<>>]
       /\ UNCHANGED <<wake, log, result, sinceCall, lastCaller, issued>>
       /\ UNCHANGED <<clientVars, downloaderVars, parseVars, textVars>>

StartRecent(t, arg) == StartRun(t, "get_recent_filings", "", arg)
StartCompany(t, cik, arg) == StartRun(t, "get_company_filings", cik, arg)

\* one pass of the for loop, lines 36-43 and 157-164: the blocking fetch of
\* form type idx, then either extend and the suspension in asyncio.sleep, or
\* the handler and 'continue' without leaving the loop
Attempt(t, response, d) ==
    LET form_type == op[t].form_types[idx[t]]
        r == IF op[t].name = "get_recent_filings"
             THEN ScrapeFormType(form_type, response, client.base_url)
             ELSE ScrapeCompanyFormType(op[t].cik, form_type, response, client.base_url)
    IN /\ pc[t] = "loop"
       /\ running = t
       /\ idx[t] <= Len(op[t].form_types)
       /\ OutboundCall(t, d)
       /\ log' = [log EXCEPT ![t] = Append(@, [form_type |-> form_type,
                                               headers |-> RequestHeaders(op[t].name),
                                               outcome |-> response.outcome,
                                               body |-> response.body,
                                               raised |-> r.raised,
                                               filings |-> r.filings])]
       /\ IF r.raised
          THEN /\ idx' = [idx EXCEPT ![t] = ContinueAt(@, Len(op[t].form_types))]
               /\ wake' = Slept(d)
               /\ UNCHANGED <<pc, running, all_filings>>
          ELSE /\ all_filings' = [all_filings EXCEPT ![t] = Extend(@, r.filings)]
               /\ idx' = [idx EXCEPT ![t] = @ + 1]
               /\ pc' = [pc EXCEPT ![t] = "sleeping"]
               /\ wake' = [Slept(d) EXCEPT ![t] = client.request_delay]
               /\ running' = 0
       /\ UNCHANGED <<op, result, calls>>
       /\ UNCHANGED <<clientVars, downloaderVars, parseVars, textVars>>

\* the loop wakes the run when its sleep is over
Resume(t) ==
    /\ pc[t] = "sleeping"
    /\ wake[t] = 0
    /\ running = 0
    /\ pc' = [pc EXCEPT ![t] = "loop"]
    /\ running' = t
    /\ UNCHANGED <<op, idx, all_filings, wake, log, result>>
    /\ UNCHANGED <<clientVars, downloaderVars, throttleVars, parseVars, textVars>>

\* lines 45, 166: return all_filings
Return(t) ==
    /\ pc[t] = "loop"
    /\ running = t
    /\ idx[t] > Len(op[t].form_types)
    /\ result' = [result EXCEPT ![t] = Returned(all_filings[t])]
    /\ pc' = [pc EXCEPT ![t] = "done"]
    /\ running' = 0
    /\ UNCHANGED <<op, idx, all_filings, wake, log>>
    /\ UNCHANGED <<clientVars, downloaderVars, throttleVars, parseVars, textVars>>

\* the caller cancels the run: CancelledError is raised at the await the run is
\* suspended in (asyncio.sleep, lines 40 and 161), passes the handler of the
\* loop and leaves the coroutine
Cancel(t) ==
    /\ pc[t] = "sleeping"
    /\ running = 0
    /\ IF HandledByRun("CancelledError")
       THEN /\ pc' = [pc EXCEPT ![t] = "loop"]
            /\ running' = t
            /\ UNCHANGED result
       ELSE /\ pc' = [pc EXCEPT ![t] = "cancelled"]
            /\ result' = [result EXCEPT ![t] = Raised("CancelledError")]
            /\ UNCHANGED running
    /\ UNCHANGED <<op, idx, all_filings, wake, log>>
    /\ UNCHANGED <<clientVars, downloaderVars, throttleVars, parseVars, textVars>>

\* analyze_filing_content(filing_url), lines 248-264: it has no await, so it
\* runs from start to end once the loop takes it up
AnalyzeFilingContent(t, response, d) ==
    /\ MayStart(t)
    /\ calls + 1 <= MaxCalls
    /\ calls' = calls + 1
    /\ OutboundCall(t, d)
    /\ wake' = Slept(d)
    /\ op' = [op EXCEPT ![t] = [NoOp EXCEPT !.name = "analyze_filing_content"]]
    /\ log' = [log EXCEPT ![t] = <<[outcome |-> response.outcome,
                                     headers |-> RequestHeaders("analyze_filing_content")]>>]
    /\ result' = [result EXCEPT ![t] = Returned(AnalyzeFilingContentResult(response))]
    /\ pc' = [pc EXCEPT ![t] = "done"]
    /\ UNCHANGED <<idx, all_filings, running>>
    /\ UNCHANGED <<clientVars, downloaderVars, parseVars, textVars>>

\* SECFilingDownloader.download_filing(accession_number): a blocking call
\* through the downloader, which is another client than the scraper instance
DownloadFiling(t, accession_number, response, d) ==
    LET r == DownloadFilingResult(accession_number, response)
    IN /\ MayStart(t)
       /\ calls + 1 <= MaxCalls
       /\ calls' = calls + 1
       /\ downloaded' = downloaded + 1
       /\ sinceCall' = Min(sinceCall + d, client.request_delay)
       /\ wake' = Slept(d)
       /\ op' = [op EXCEPT ![t] = [NoOp EXCEPT !.name = "download_filing"]]
       /\ log' = [log EXCEPT ![t] = <<[outcome |-> response.outcome,
                                        headers |-> RequestHeaders("download_filing")]>>]
       /\ result' = [result EXCEPT ![t] =
                        IF r.raised THEN Raised("Exception") ELSE Returned(r.value)]
       /\ pc' = [pc EXCEPT ![t] = "done"]
       /\ UNCHANGED <<idx, all_filings, running, lastCaller, issued>>
       /\ UNCHANGED <<clientVars, parseVars, textVars>>

\* time passes while the loop is idle
Tick ==
    /\ running = 0
    /\ \/ sinceCall < client.request_delay
       \/ \E t \in Tasks : pc[t] = "sleeping" /\ wake[t] > 0
    /\ sinceCall' = Min(sinceCall + 1, client.request_delay)
    /\ wake' = Slept(1)
    /\ UNCHANGED <<pc, op, idx, all_filings, log, result, running, lastCaller, issued, calls>>
    /\ UNCHANGED <<clientVars, downloaderVars, parseVars, textVars>>

InitClient ==
    client = [base_url |-> BaseUrl, headers |-> ScraperHeaders,
              request_delay |-> RequestDelay]

\* the coroutines of pool have been created and wait for the loop
InitRun(pool) ==
    /\ pc = [t \in Tasks |-> IF t \in pool THEN "idle" ELSE "absent"]
    /\ op = [t \in Tasks |-> NoOp]
    /\ idx = [t \in Tasks |-> 1]
    /\ all_filings = [t \in Tasks |-> <<>>]
    /\ wake = [t \in Tasks |-> 0]
    /\ log = [t \in Tasks |-> <<>>]
    /\ result = [t \in Tasks |-> Pending]
    /\ running = 0
    /\ sinceCall = 0
    /\ lastCaller = 0
    /\ issued = 0
    /\ calls = 0
    /\ downloaded = 0

NoParse == [by |-> "none", form_type |-> "", cik |-> "", filings |-> <<>>]
NoFacts == [by |-> "none", value |-> EmptyDict, earlier |-> None]

\* one coroutine has the scraper instance and the loop to itself
Init ==
    /\ InitClient
    /\ InitRun({1})
    /\ payload = Body(<<>>, <<>>)
    /\ parsed = NoParse
    /\ content = <<>>
    /\ facts = NoFacts

Next ==
    \/ \E t \in Tasks, arg \in FormTypeArgs : StartRecent(t, arg)
    \/ \E t \in Tasks, cik \in Ciks, arg \in FormTypeArgs : StartCompany(t, cik, arg)
    \/ \E t \in Tasks, response \in Responses, d \in 0..MaxFetchTicks : Attempt(t, response, d)
    \/ \E t \in Tasks : Resume(t)
    \/ \E t \in Tasks : Return(t)
    \/ \E t \in Tasks : Cancel(t)
    \/ \E t \in Tasks, response \in DocResponses, d \in 0..MaxFetchTicks :
          AnalyzeFilingContent(t, response, d)
    \/ \E t \in Tasks, a \in Accessions, response \in DocResponses, d \in 0..MaxFetchTicks :
          DownloadFiling(t, a, response, d)
    \/ Tick

Spec == Init /\ [][Next]_vars

\* Spec with the scheduling the code relies on: a blocking fetch returns (the
\* proviso that every network call returns), the event loop wakes a run whose
\* sleep is over and runs a run that holds it, and time passes.  Nothing makes
\* the caller start or cancel a run.
Fairness ==
    /\ WF_vars(Tick)
    /\ \A t \in Tasks :
           /\ WF_vars(\E response \in Responses, d \in 0..MaxFetchTicks :
                          Attempt(t, response, d))
           /\ WF_vars(Resume(t))
           /\ WF_vars(Return(t))

SpecLive == Init /\ [][Next]_vars /\ Fairness

\* two coroutines share the scraper instance and the loop
InitShared ==
    /\ InitClient
    /\ InitRun(Tasks)
    /\ payload = Body(<<>>, <<>>)
    /\ parsed = NoParse
    /\ content = <<>>
    /\ facts = NoFacts

SharedFormTypeArgs == {Some(<<"13G">>), Some(<<"13G/A", "13D">>)}
SharedResponses ==
    {r \in Responses : IF r.outcome = "ok" THEN r.body.entries /= <<>>
                                           ELSE r.outcome = "unexpected"}
SharedDocResponses ==
    {r \in DocResponses : IF r.outcome = "ok" THEN r.text = CHOOSE x \in DocTexts : TRUE
                                              ELSE r.outcome = "transport"}

NextShared ==
    \/ \E t \in Tasks, arg \in SharedFormTypeArgs : StartRecent(t, arg)
    \/ \E t \in Tasks, cik \in Ciks, arg \in SharedFormTypeArgs : StartCompany(t, cik, arg)
    \/ \E t \in Tasks, response \in SharedResponses, d \in 0..MaxFetchTicks :
          Attempt(t, response, d)
    \/ \E t \in Tasks : Resume(t)
    \/ \E t \in Tasks : Return(t)
    \/ \E t \in Tasks : Cancel(t)
    \/ \E t \in Tasks, response \in SharedDocResponses, d \in 0..MaxFetchTicks :
          AnalyzeFilingContent(t, response, d)
    \/ \E t \in Tasks, a \in Accessions, response \in SharedDocResponses,
             d \in 0..MaxFetchTicks :
          DownloadFiling(t, a, response, d)
    \/ Tick

SpecShared == InitShared /\ [][NextShared]_vars


(***************************************************************************)
(* The parsers and the extractors on their own                             *)
(***************************************************************************)
\* _parse_edgar_response(response.text, form_type) on the payload, once
ParseEdgar(form_type) ==
    /\ parsed = NoParse
    /\ parsed' = [by |-> "_parse_edgar_response", form_type |-> form_type, cik |-> "",
                  filings |-> ParseEdgarResponse(payload, form_type, client.base_url)]
    /\ UNCHANGED <<payload, clientVars, downloaderVars, runVars, throttleVars, textVars>>

\* _parse_company_filings_response(response.text, form_type, cik) on the payload
ParseCompany(form_type, cik) ==
    /\ parsed = NoParse
    /\ parsed' = [by |-> "_parse_company_filings_response", form_type |-> form_type,
                  cik |-> cik,
                  filings |-> ParseCompanyFilingsResponse(payload, form_type, cik,
                                                          client.base_url)]
    /\ UNCHANGED <<payload, clientVars, downloaderVars, runVars, throttleVars, textVars>>

InitParse ==
    /\ InitClient
    /\ InitRun({})
    /\ payload \in Payloads
    /\ parsed = NoParse
    /\ content = <<>>
    /\ facts = NoFacts

NextParse ==
    \/ \E form_type \in FormTypes : ParseEdgar(form_type)
    \/ \E form_type \in FormTypes, cik \in Ciks : ParseCompany(form_type, cik)

SpecParse == InitParse /\ [][NextParse]_vars

\* bound: a filing text is made of up to MaxFrags fragments
MaxFrags == 2

Pad(n) == [i \in 1..n |-> "x"]

F_b == <<"o","w","n","s"," ","1",",","5","0","0",",","0","0","0"," ","s","h","a","r","e","s"," ","r","e","p","r","e","s","e","n","t","i","n","g"," ","1","5",".","2","%"," ","o","f"," ","t","h","e"," ","o","u","t","s","t","a","n","d","i","n","g"," ","s","h","a","r","e","s"," ">>
F_250 == <<"h","o","l","d","s"," ","2","5","0","%"," ">>
F_word == <<"7",".","5","0"," ","P","E","R","C","E","N","T"," ">>
F_100 == <<"1","0","0"," ","%"," ">>
F_plain == <<"1","2","3","4","5"," ","s","h","a","r","e","s"," ">>
F_one == <<"1"," ","s","h","a","r","e"," ">>
F_item4 == <<"I","t","e","m"," ","4","."," ","P","u","r","p","o","s","e"," ","o","f"," ","T","r","a","n","s","a","c","t","i","o","n",":"," ","s","e","e","k"," ","B","o","a","r","d"," ","R","e","p","r","e","s","e","n","t","a","t","i","o","n"," ","a","n","d"," ","c","o","n","t","r","o","l","<">>
F_purpose == <<"P","U","R","P","O","S","E",":"," ","m","a","x","i","m","i","z","e"," ","v","a","l","u","e"," ","f","o","r"," ","s","h","a","r","e","h","o","l","d","e","r","s","\n">>
F_item == <<"I","t","e","m"," ","4"," ","m","e","r","g","e","r",":"," ","p","r","o","x","y"," ","<">>
F_long == <<"P","u","r","p","o","s","e",":"," ">> \o Pad(PurposeLimit + 10) \o <<" ","p","r","o","x","y"," ","G","o","v","e","r","n","a","n","c","e","<">>
F_head == <<"F","O","R","M"," ","T","Y","P","E",":"," ","S","C"," ","1","3","D","\n","F","I","L","E","D"," ","A","S"," ","O","F"," ","D","A","T","E",":"," ","2","0","2","4","0","1","1","5","\n">>
F_blank == <<"P","u","r","p","o","s","e",":"," ","\n","<">>
F_none == <<"n","o"," ","f","i","g","u","r","e","s"," ","h","e","r","e"," ">>

Frags == {F_b, F_250, F_word, F_100, F_plain, F_one, F_item4, F_purpose, F_item, F_blank,
          F_long, F_head, F_none}

RECURSIVE Concat(_)
Concat(ss) == IF ss = <<>> THEN <<>> ELSE ss[1] \o Concat(Tail(ss))

Texts == {Concat(ss) : ss \in SeqsUpTo(Frags, MaxFrags)}

\* a cache of analysed texts: the second call on a text returns the empty dict
AnalyzeTextOnce ==
    /\ facts.by = "none" \/ (facts.by = "_analyze_filing_text" /\ facts.earlier = None)
    /\ facts' = [by |-> "_analyze_filing_text",
                 value |-> IF facts.by = "none" THEN AnalyzeFilingText(content)
                           ELSE EmptyDict,
                 earlier |-> IF facts.by = "none" THEN None ELSE Some(facts.value)]
    /\ UNCHANGED <<content, clientVars, downloaderVars, runVars, throttleVars, parseVars>>

\* _analyze_filing_text(content) on the filing text, and once more on the same
\* text: facts keeps what the call before it returned
AnalyzeText ==
    /\ facts.by = "none" \/ (facts.by = "_analyze_filing_text" /\ facts.earlier = None)
    /\ facts' = [by |-> "_analyze_filing_text",
                 value |-> AnalyzeFilingText(content),
                 earlier |-> IF facts.by = "none" THEN None ELSE Some(facts.value)]
    /\ UNCHANGED <<content, clientVars, downloaderVars, runVars, throttleVars, parseVars>>

\* parse_filing_content(content, accession_number) on the filing text
ParseContent(accession_number) ==
    /\ facts = NoFacts
    /\ facts' = [by |-> "parse_filing_content",
                 value |-> ParseFilingContent(content, accession_number),
                 earlier |-> None]
    /\ UNCHANGED <<content, clientVars, downloaderVars, runVars, throttleVars, parseVars>>

InitText ==
    /\ InitClient
    /\ InitRun({})
    /\ payload = Body(<<>>, <<>>)
    /\ parsed = NoParse
    /\ content \in Texts
    /\ facts = NoFacts

NextText ==
    \/ AnalyzeText
    \/ \E a \in Accessions : ParseContent(a)

SpecText == InitText /\ [][NextText]_vars


(***************************************************************************)
(* Properties of the orchestration and of the throttle                     *)
(***************************************************************************)
RunNames == {"get_recent_filings", "get_company_filings"}
IsRun(t) == op[t].name \in RunNames

\* C1: across the outbound calls issued through one scraper instance, listing
\* fetches and document fetches alike, a call never starts less than
\* request_delay after the start of the call before it.
C1_MinimumSpacing ==
    [][issued' > issued => (issued = 0 \/ sinceCall >= client.request_delay)]_vars

\* the attempts of run t that ended in outcome o
AttemptsWith(t, o) == {i \in 1..Len(log[t]) : log[t][i].outcome = o}

\* the references of the attempts of run t, in the order of the attempts
RECURSIVE Gathered(_)
Gathered(attempts) ==
    IF attempts = <<>> THEN <<>> ELSE Head(attempts).filings \o Gathered(Tail(attempts))

\* a broad scan that has returned, with exactly one form type failed in
\* transport and every other one fetched
OneTransportFailure(t) ==
    /\ op[t].name = "get_recent_filings"
    /\ pc[t] = "done"
    /\ Cardinality(AttemptsWith(t, "transport")) = 1
    /\ AttemptsWith(t, "ok") = (1..Len(log[t])) \ AttemptsWith(t, "transport")

\* the form type of the one failed attempt
FailedForm(t) == log[t][CHOOSE i \in AttemptsWith(t, "transport") : TRUE].form_type

\* the references gathered from the other form types
FromOthers(t) ==
    Gathered(SelectSeq(log[t], LAMBDA a : a.outcome = "ok"))

C3_EachFormOnceInOrder ==
    \A t \in Tasks :
        IsRun(t) =>
            /\ Len(log[t]) = idx[t] - 1
            /\ Len(log[t]) <= Len(op[t].form_types)
            /\ \A i \in 1..Len(log[t]) : log[t][i].form_type = op[t].form_types[i]
            /\ (pc[t] = "done" => Len(log[t]) = Len(op[t].form_types))

\* a run has returned after an attempt raised and later form types followed
C3_Witness ==
    \E t \in Tasks :
        /\ IsRun(t)
        /\ pc[t] = "done"
        /\ Len(log[t]) >= 3
        /\ log[t][1].raised
        /\ log[t][2].outcome = "transport"

\* C6: a run cancelled at its suspension point after at least one form type
\* gives its caller the references accumulated so far.
C6_CancelKeepsPartial ==
    \A t \in Tasks :
        (pc[t] = "cancelled" /\ Len(log[t]) >= 1) => result[t] = Returned(all_filings[t])

\* C7: when two runs share the scraper instance, no request of one run starts
\* less than request_delay after the start of a request of the other run.
C7_SpacingAcrossRuns ==
    [][(/\ issued' > issued
        /\ lastCaller /= 0
        /\ lastCaller' /= lastCaller
        /\ op[lastCaller].name \in RunNames
        /\ op[lastCaller'].name \in RunNames)
       => sinceCall >= client.request_delay]_vars

\* what the caller of the fetch layer has in hand after an attempt
Seen(attempt) == [raised |-> attempt.raised, filings |-> attempt.filings]

\* the attempts of the runs so far
AllAttempts == UNION {{log[t][i] : i \in 1..Len(log[t])} : t \in {u \in Tasks : IsRun(u)}}

C4_PercentInRange ==
    facts /= NoFacts =>
        \/ facts.value.ownership_percent = None
        \/ /\ facts.value.ownership_percent[1].num >= 0
           /\ facts.value.ownership_percent[1].num <= 100 * facts.value.ownership_percent[1].den

\* ten digits, hyphen, two digits, hyphen, six digits
IsAccessionId(s) ==
    /\ Len(s) = 20
    /\ \A i \in 1..20 : IF i \in {11, 14} THEN s[i] = "-" ELSE IsDigit(s[i])

\* the accession identifier a reference carries, feed or tabular
AccessionOf(ref) ==
    IF ref.source = "SEC_EDGAR_REALTIME" THEN ref.accession_number
    ELSE Some(ref.accession_number)

\* C5: the accession identifier of every reference of either listing parser
\* is absent or has the shape ten digits, hyphen, two digits, hyphen, six
\* digits.
C5_AccessionShape ==
    \A i \in 1..Len(parsed.filings) :
        \/ AccessionOf(parsed.filings[i]) = None
        \/ IsAccessionId(AccessionOf(parsed.filings[i])[1])

\* the listing without the entries and the rows whose processing raises
WithoutMalformed(body) ==
    [entries |-> SelectSeq(body.entries, LAMBDA e : ~EntryRaises(e)),
     tables |-> [i \in 1..Len(body.tables) |->
                    [body.tables[i] EXCEPT !.rows =
                        IF @ = <<>> THEN <<>>
                        ELSE <<Head(@)>>
                             \o SelectSeq(Tail(@), LAMBDA r : ~(Len(r) >= 5 /\ RowRaises(r)))]]]

\* C9: in both shapes the parse gives what it gives on the listing without
\* its malformed entries and rows: exactly those are missing, and their
\* siblings before and after them are emitted.
C9_BestEffortPerUnit ==
    /\ parsed.by = "_parse_edgar_response" =>
           parsed.filings = ParseEdgarResponse(WithoutMalformed(payload), parsed.form_type,
                                               client.base_url)
    /\ parsed.by = "_parse_company_filings_response" =>
           parsed.filings = ParseCompanyFilingsResponse(WithoutMalformed(payload),
                                                        parsed.form_type, parsed.cik,
                                                        client.base_url)

\* the link of the entry has a path that holds "/", an accession identifier
\* and "/"
HasAccessionPath(entry) ==
    /\ entry.link /= None
    /\ entry.link[1] /= None
    /\ \E i \in 1..Len(entry.link[1][1]) :
           /\ i + 21 <= Len(entry.link[1][1])
           /\ entry.link[1][1][i] = "/"
           /\ IsAccessionId(SubSeq(entry.link[1][1], i + 1, i + 20))
           /\ entry.link[1][1][i + 21] = "/"

ScenarioA == <<E_good, E_nolink, E_good2>>

\* C10: the feed parser emits one reference for every entry whose processing
\* does not raise, in the order of the feed; an entry without a link, with a
\* link without href or with a link whose path holds no accession pattern is
\* emitted with the accession identifier absent, every other one with the
\* identifier of its path.  Two well-formed entries around one without a link
\* give three references, the middle one without an identifier.
C10_EntryEmittedWithoutAccession ==
    parsed.by = "_parse_edgar_response" =>
        LET emitted == SelectSeq(payload.entries, LAMBDA e : ~EntryRaises(e))
        IN /\ Len(parsed.filings) = Len(emitted)
           /\ \A i \in 1..Len(emitted) :
                  IF HasAccessionPath(emitted[i])
                  THEN /\ parsed.filings[i].accession_number /= None
                       /\ IsAccessionId(parsed.filings[i].accession_number[1])
                  ELSE parsed.filings[i].accession_number = None
           /\ payload.entries = ScenarioA =>
                  /\ Len(parsed.filings) = 3
                  /\ parsed.filings[1].accession_number /= None
                  /\ parsed.filings[2].accession_number = None
                  /\ parsed.filings[3].accession_number /= None

\* the feed of two well-formed entries and one without a link has been parsed
\* into three references
C10_Witness ==
    /\ parsed.by = "_parse_edgar_response"
    /\ payload.entries = ScenarioA
    /\ Len(parsed.filings) = 3
    /\ parsed.filings[2].accession_number = None

\* the rows of the listing that hold a reference: those of five or more cells
ReferenceRows(body) ==
    SelectSeq(CandidateRows(body.tables), LAMBDA r : Len(r) >= 5)

\* C11: the references a listing parse returns stand in the order of their
\* source units and none is merged with another: reference i of a feed is the
\* reference of the i-th entry whose processing does not raise, reference i of
\* a filing table is the reference of the i-th row of five or more cells, so
\* that two units with the same accession identifier give two references.
C11_SourceOrderNoDedup ==
    /\ parsed.by = "_parse_edgar_response" =>
           LET emitted == SelectSeq(payload.entries, LAMBDA e : ~EntryRaises(e))
           IN /\ Len(parsed.filings) = Len(emitted)
              /\ \A i \in 1..Len(emitted) :
                     parsed.filings[i] = FilingData(emitted[i], parsed.form_type,
                                                    client.base_url)
    /\ parsed.by = "_parse_company_filings_response" =>
           LET rows == ReferenceRows(payload)
           IN /\ Len(parsed.filings) <= Len(rows)
              /\ \A i \in 1..Len(parsed.filings) :
                     parsed.filings[i] = RowData(rows[i], parsed.form_type, parsed.cik,
                                                 client.base_url)

\* a feed of two different entries followed by a copy of the first has been
\* parsed into three references, the first and the last with the same
\* accession identifier
C11_Witness ==
    /\ parsed.by = "_parse_edgar_response"
    /\ payload.entries = <<E_good, E_good2, E_good>>
    /\ Len(parsed.filings) = 3
    /\ parsed.filings[1].accession_number /= None
    /\ parsed.filings[1].accession_number = parsed.filings[3].accession_number
    /\ parsed.filings[2].accession_number /= parsed.filings[1].accession_number

ContainsIgnoreCase(s, lit) == \E i \in 1..Len(s) : HasAtIgnoreCase(s, i, lit)

\* the text mentions "Item 4": the word, optional whitespace and the digit
MentionsItem4(s) ==
    \E i \in 1..Len(s) :
        /\ HasAtIgnoreCase(s, i, W_item)
        /\ SpaceRunEnd(s, i + 4) <= Len(s)
        /\ s[SpaceRunEnd(s, i + 4)] = "4"

\* the extractor found no purpose: the narrative is absent, both signals false
NoPurposeFound ==
    /\ facts.value.purpose = None
    /\ facts.value.activist_language = FALSE
    /\ facts.value.control_intent = FALSE

CapturedSection == ExtractPurposeSection(content)[1]

\* C14: when a purpose narrative is found, activist_language is true exactly
\* when the captured section holds one of the six activist phrases in any
\* case, and control_intent is true exactly when it holds one of the five
\* control words in any case, each signal whatever the other is; the section
\* "maximize value for shareholders" gives activist_language = true.
C14_SignalsIffKeyword ==
    (facts.by = "_analyze_filing_text" /\ facts.value.purpose /= None) =>
      \A section \in {CapturedSection} :
        /\ facts.value.activist_language =
               (\E k \in ActivistKeywords : ContainsIgnoreCase(section, k))
        /\ facts.value.control_intent =
               (\E k \in ControlKeywords : ContainsIgnoreCase(section, k))
        /\ section = <<"m","a","x","i","m","i","z","e"," ","v","a","l","u","e"," ","f","o","r"," ","s","h","a","r","e","h","o","l","d","e","r","s">> =>
               /\ facts.value.activist_language = TRUE
               /\ facts.value.control_intent = FALSE

\* the section "seek Board Representation and control" has been analysed: both
\* signals are set, the activist one by a phrase written with capitals
C14_Witness ==
    /\ facts.by = "_analyze_filing_text"
    /\ content = F_item4
    /\ facts.value.purpose = Some(<<"s","e","e","k"," ","B","o","a","r","d"," ","R","e","p","r","e","s","e","n","t","a","t","i","o","n"," ","a","n","d"," ","c","o","n","t","r","o","l">>)
    /\ facts.value.activist_language = TRUE
    /\ facts.value.control_intent = TRUE

\* s is a prefix of t
IsPrefix(s, t) == Len(s) <= Len(t) /\ SubSeq(t, 1, Len(s)) = s

\* C16: the purpose the extractor stores is absent or at most 500 characters
\* long, and when present it is a prefix of the captured purpose section.
C16_ExcerptBounded ==
    (facts.by = "_analyze_filing_text" /\ facts.value.purpose /= None) =>
        /\ Len(facts.value.purpose[1]) <= PurposeLimit
        /\ \A section \in {CapturedSection} : IsPrefix(facts.value.purpose[1], section)

\* a purpose section longer than the limit has been analysed and cut to it
C16_Witness ==
    /\ facts.by = "_analyze_filing_text"
    /\ content = F_long
    /\ Len(CapturedSection) > PurposeLimit
    /\ facts.value.purpose /= None
    /\ Len(facts.value.purpose[1]) = PurposeLimit

\* C15: the share count and the percentage are found each on its own.  A text
\* that begins with "owns 1,500,000 shares representing 15.2% of the
\* outstanding shares" (Scenario B) gives shares_owned = 1500000 and
\* ownership_percent = 15.2 whatever follows it; behind a fragment that holds
\* a percentage and no share count, the share count is still 1500000 and the
\* percentage is that of the fragment before it; behind the header lines of a
\* filing both are those of Scenario B.  Both extractors agree.
C15_SharesAndPercent ==
    facts.by /= "none" =>
        /\ HasAt(content, 1, F_b) =>
               /\ facts.value.shares_owned = Some(1500000)
               /\ facts.value.ownership_percent = Some([num |-> 152, den |-> 10])
        /\ content = F_250 \o F_b =>
               /\ facts.value.shares_owned = Some(1500000)
               /\ facts.value.ownership_percent = Some([num |-> 250, den |-> 1])
        /\ content = F_100 \o F_b =>
               /\ facts.value.shares_owned = Some(1500000)
               /\ facts.value.ownership_percent = Some([num |-> 100, den |-> 1])
        /\ content = F_b \o F_250 =>
               /\ facts.value.shares_owned = Some(1500000)
               /\ facts.value.ownership_percent = Some([num |-> 152, den |-> 10])
        /\ content = F_head \o F_b =>
               /\ facts.value.shares_owned = Some(1500000)
               /\ facts.value.ownership_percent = Some([num |-> 152, den |-> 10])

\* the Scenario B text behind a percentage has been analysed: the share count
\* comes from Scenario B, the percentage from the fragment before it
C15_Witness ==
    /\ facts.by = "_analyze_filing_text"
    /\ content = F_250 \o F_b
    /\ facts.value.shares_owned = Some(1500000)
    /\ facts.value.ownership_percent = Some([num |-> 250, den |-> 1])

\* C19: for a text whose first share mention is the plain integer 12345
\* followed by "shares", the share count is 12345, the whole integer and not
\* its last digits, and a share count is never negative.
C19_PlainIntegerWhole ==
    facts.by /= "none" =>
        /\ HasAt(content, 1, F_plain) => facts.value.shares_owned = Some(12345)
        /\ facts.value.shares_owned /= None => facts.value.shares_owned[1] >= 0

\* the coroutines that performed a fetch operation in the step
Invoked == {t \in Tasks : Len(log'[t]) > Len(log[t])}

\* C17: a step performs at most one invocation of a fetch operation, and the
\* invocation issues exactly one outbound call, also when the call fails (the
\* failing call is not sent again): a listing fetch or analyze_filing_content
\* adds one to the calls issued through the scraper, download_filing one to
\* those issued through the downloader, and every other step adds none.  No
\* step changes the scraper instance (base_url, headers, request_delay).
C17_OneCallPerFetch ==
    [][/\ client' = client
       /\ Cardinality(Invoked) <= 1
       /\ \A t \in Invoked : Len(log'[t]) = Len(log[t]) + 1
       /\ issued' - issued =
              Cardinality({t \in Invoked : op'[t].name /= "download_filing"})
       /\ downloaded' - downloaded =
              Cardinality({t \in Invoked : op'[t].name = "download_filing"})]_vars

\* a run has ended after two fetches, the first of which failed in transport:
\* two calls were issued, the failing one once
C17_Witness ==
    \E t \in Tasks :
        /\ IsRun(t)
        /\ pc[t] = "done"
        /\ Len(log[t]) = 2
        /\ log[t][1].outcome = "transport"
        /\ log[t][2].outcome = "ok"
        /\ issued = 2
        /\ downloaded = 0

\* C18: a run that stands in its loop eventually ends, and unless its caller
\* cancelled it, it has returned the references it accumulated: no form type,
\* failing or not, holds it for ever.
C18_RunCompletes ==
    \A t \in Tasks :
        (IsRun(t) /\ pc[t] \in {"loop", "sleeping"})
            ~> \/ pc[t] = "cancelled"
               \/ pc[t] = "done" /\ result[t] = Returned(all_filings[t])

\* a run over two form types has ended although both fetches failed
C18_Witness ==
    \E t \in Tasks :
        /\ IsRun(t)
        /\ pc[t] = "done"
        /\ Len(log[t]) = 2
        /\ \A i \in 1..2 : log[t][i].outcome /= "ok"
        /\ result[t] = Returned(<<>>)

\* C20: a run that stands ready for the next fetch of its loop has let at
\* least request_delay pass since its previous fetch, whether that fetch
\* ended in a response or in a failure of any kind.  (The run is alone on the
\* instance, so the time since the instance's last call is the time since the
\* start of the run's previous fetch, which is no later than its end.)
C20_PauseAfterEveryFetch ==
    \A t \in Tasks :
        (/\ IsRun(t)
         /\ pc[t] = "loop"
         /\ running = t
         /\ idx[t] <= Len(op[t].form_types)
         /\ Len(log[t]) >= 1)
            => sinceCall >= client.request_delay

\* C21: the heading patterns are tried in their order and the first that
\* matches decides: a text that holds the heading "Item 4. Purpose of
\* Transaction: seek Board Representation and control<" gives that narrative,
\* whether a bare "Purpose" heading stands before it, behind it or nowhere.
C21_Item4PurposeFirst ==
    (facts.by = "_analyze_filing_text" /\ \E i \in 1..Len(content) : HasAt(content, i, F_item4)) =>
        facts.value.purpose = Some(<<"s","e","e","k"," ","B","o","a","r","d"," ","R","e","p","r","e","s","e","n","t","a","t","i","o","n"," ","a","n","d"," ","c","o","n","t","r","o","l">>)

\* a text with a bare "PURPOSE:" heading before the "Item 4. Purpose" heading
\* has been analysed: the narrative is the one of the second heading
C21_Witness ==
    /\ facts.by = "_analyze_filing_text"
    /\ content = F_purpose \o F_item4
    /\ facts.value.purpose = Some(<<"s","e","e","k"," ","B","o","a","r","d"," ","R","e","p","r","e","s","e","n","t","a","t","i","o","n"," ","a","n","d"," ","c","o","n","t","r","o","l">>)
    /\ facts.value.control_intent = TRUE

\* C22: the tabular parser emits one reference for every row behind the first
\* row of a filing table that has five or more cells, and none for any other
\* row: the references are as many as those rows.
C22_OneReferencePerRow ==
    parsed.by = "_parse_company_filings_response" =>
        Len(parsed.filings) = Len(ReferenceRows(payload))

\* C23: the date of a row is read as YYYY-MM-DD, else as MM/DD/YYYY: the rows
\* dated "2024-01-15" and "01/15/2024" both carry 15 January 2024; a row whose
\* date text neither format accepts ("2024-02-30") is emitted all the same,
\* with the date absent and its other fields in place.  A date that is
\* present is a date of the calendar.
C23_DateFallback ==
    parsed.by = "_parse_company_filings_response" =>
        \A i \in 1..Len(parsed.filings) :
            \A row \in {ReferenceRows(payload)[i]} :
                /\ row = R_good => parsed.filings[i].filing_date = Some(<<2024, 1, 15>>)
                /\ row = R_us => parsed.filings[i].filing_date = Some(<<2024, 1, 15>>)
                /\ row = R_file =>
                       /\ parsed.filings[i].filing_date = None
                       /\ parsed.filings[i].accession_number = <<"0","0","5","-","1","2","3","4","5">>
                       /\ parsed.filings[i].description = <<"A","m","e","n","d","m","e","n","t">>
                /\ parsed.filings[i].filing_date /= None =>
                       ValidDate(parsed.filings[i].filing_date[1][1],
                                 parsed.filings[i].filing_date[1][2],
                                 parsed.filings[i].filing_date[1][3])

\* a table whose rows behind the first are dated in the second format and in
\* neither has been parsed into two references, the last without date
C23_Witness ==
    /\ parsed.by = "_parse_company_filings_response"
    /\ payload.tables = <<[class |-> "tableFile2", rows |-> <<R_good, R_us, R_file>>]>>
    /\ Len(parsed.filings) = 2
    /\ parsed.filings[1].filing_date = Some(<<2024, 1, 15>>)
    /\ parsed.filings[2].filing_date = None

\* C24: the references of a listing are those of the shape found in the
\* payload, whichever parser the scan hands it to (_scrape_form_type hands
\* every payload to _parse_edgar_response, _scrape_company_form_type to
\* _parse_company_filings_response): a payload of feed entries and no table
\* gives one reference for every entry whose processing does not raise, a
\* payload of filing tables and no entry gives a reference for its first row
\* of five or more cells.
C24_ShapeDetected ==
    parsed.by /= "none" =>
        /\ (payload.entries /= <<>> /\ payload.tables = <<>>) =>
               Len(parsed.filings) =
                   Len(SelectSeq(payload.entries, LAMBDA e : ~EntryRaises(e)))
        /\ (payload.entries = <<>> /\ ReferenceRows(payload) /= <<>>
                                   /\ ~RowRaises(ReferenceRows(payload)[1])) =>
               parsed.filings /= <<>>

\* the text holds an address: an at sign between two characters that are no
\* blanks
AtSign == "@"

HoldsContact(agent) ==
    \E i \in 2..(Len(agent) - 1) :
        agent[i] = AtSign /\ ~IsSpace(agent[i - 1]) /\ ~IsSpace(agent[i + 1])

\* C25: every outbound call of a listing fetch, of a document fetch and of a
\* download carries the headers its client was built with: an agent string
\* that holds a contact address and a Host header equal to the host of the
\* registry's origin (the network location of base_url); the calls of the
\* scraper all carry one and the same set of headers, and no operation changes
\* the headers of the instance.
C25_IdentificationHeaders ==
    /\ client.headers = ScraperHeaders
    /\ \A t \in Tasks : \A i \in 1..Len(log[t]) :
           /\ HoldsContact(log[t][i].headers.User_Agent)
           /\ log[t][i].headers.Host = Netloc(client.base_url)
           /\ op[t].name /= "download_filing" => log[t][i].headers = ScraperHeaders
           /\ op[t].name = "download_filing" => log[t][i].headers = DownloaderHeaders

\* C25 as stated: one and the same set of headers, that of the scraper
\* instance, on every outbound call, the download by accession included
C25_OneHeaderSet ==
    \A t \in Tasks : \A i \in 1..Len(log[t]) : log[t][i].headers = client.headers

\* a document has been fetched by analyze_filing_content under the headers of
\* the instance
C25_Witness ==
    \E t \in Tasks :
        /\ op[t].name = "analyze_filing_content"
        /\ Len(log[t]) = 1
        /\ log[t][1].headers.Host = <<"w","w","w",".","s","e","c",".","g","o","v">>
        /\ HoldsContact(log[t][1].headers.User_Agent)

\* the parsed reference lists of the attempts whose fetch succeeded, one after
\* the other in the order of the attempts
RECURSIVE OfSucceeded(_)
OfSucceeded(attempts) ==
    IF attempts = <<>> THEN <<>>
    ELSE (IF Head(attempts).outcome = "ok" THEN Head(attempts).filings ELSE <<>>)
         \o OfSucceeded(Tail(attempts))

\* C26: at every point of a run the accumulator is the concatenation, in
\* request order, of the parsed reference lists of the form types whose fetch
\* succeeded so far (a failed fetch adds nothing), the list a run returns is
\* that concatenation over all its form types, and a step of the run only
\* appends to the accumulator: what it held stays in place at its front.
C26_ResultIsConcatenation ==
    /\ [](\A t \in Tasks :
             IsRun(t) =>
                 /\ all_filings[t] = OfSucceeded(log[t])
                 /\ (pc[t] = "done" => result[t] = Returned(OfSucceeded(log[t]))))
    /\ [][\A t \in Tasks :
             (IsRun(t) /\ op'[t] = op[t]) => IsPrefix(all_filings[t], all_filings'[t])]_vars

\* a run returned the references of two form types, after a form type whose
\* fetch failed
C26_Witness ==
    \E t \in Tasks :
        /\ IsRun(t)
        /\ pc[t] = "done"
        /\ Len(log[t]) = 3
        /\ log[t][1].outcome = "http_error"
        /\ log[t][2].filings /= <<>>
        /\ log[t][3].filings /= <<>>
        /\ result[t].value = log[t][2].filings \o log[t][3].filings

\* what the registry answered the attempts of a run with
Answers(t) == [i \in 1..Len(log[t]) |-> [outcome |-> log[t][i].outcome, body |-> log[t][i].body]]

\* C27: no step changes base_url, headers or request_delay of the instance;
\* the list a run returned is as long as the reference lists its own attempts
\* parsed, and two runs made on the one instance with the same arguments and
\* answered alike by the registry returned equal lists.
C27_RunsIsolated ==
    /\ client = [base_url |-> BaseUrl, headers |-> ScraperHeaders, request_delay |-> RequestDelay]
    /\ \A t \in Tasks :
           (IsRun(t) /\ pc[t] = "done") =>
               /\ result[t].status = "returned"
               /\ Len(result[t].value) = Len(Gathered(log[t]))
               /\ \A u \in Tasks :
                      (IsRun(u) /\ pc[u] = "done" /\ op[u] = op[t] /\ Answers(u) = Answers(t))
                          => result[u] = result[t]

\* two runs of the same scan on the one instance, answered alike, have both
\* returned the same references
C27_Witness ==
    \E t \in Tasks, u \in Tasks :
        /\ t /= u
        /\ IsRun(t) /\ IsRun(u)
        /\ pc[t] = "done" /\ pc[u] = "done"
        /\ op[u] = op[t]
        /\ Answers(u) = Answers(t)
        /\ result[t].value /= <<>>
        /\ result[u] = result[t]

\* a keyword of the set stands in the text, in any case of letters
Mentions(text, keywords) == \E k \in keywords : Contains(LowerText(text), k)

\* C28: the signals are computed on the whole captured purpose section: when
\* a section longer than 500 characters names an activist (control) keyword
\* and its first 500 characters name none, activist_language (control_intent)
\* is set all the same, while the stored purpose is those first 500 characters
\* and names no keyword of that set.
C28_SignalsFromWholeSection ==
    (facts.by = "_analyze_filing_text" /\ ExtractPurposeSection(content) /= None) =>
        \A section \in {CapturedSection} :
            /\ (/\ Len(section) > PurposeLimit
                /\ Mentions(section, ActivistKeywords)
                /\ ~Mentions(SubSeq(section, 1, PurposeLimit), ActivistKeywords))
                   => /\ facts.value.activist_language
                      /\ facts.value.purpose = Some(SubSeq(section, 1, PurposeLimit))
                      /\ ~Mentions(facts.value.purpose[1], ActivistKeywords)
            /\ (/\ Len(section) > PurposeLimit
                /\ Mentions(section, ControlKeywords)
                /\ ~Mentions(SubSeq(section, 1, PurposeLimit), ControlKeywords))
                   => /\ facts.value.control_intent
                      /\ facts.value.purpose = Some(SubSeq(section, 1, PurposeLimit))
                      /\ ~Mentions(facts.value.purpose[1], ControlKeywords)

\* a section whose keywords stand behind its 500th character was analysed:
\* both signals are set and the stored purpose names no keyword
C28_Witness ==
    /\ facts.by = "_analyze_filing_text"
    /\ content = F_long
    /\ Len(CapturedSection) > PurposeLimit
    /\ facts.value.control_intent
    /\ facts.value.activist_language
    /\ ~Mentions(facts.value.purpose[1], ActivistKeywords \cup ControlKeywords)

\* the keys of the record _analyze_filing_text builds
FactFields ==
    {"ownership_percent", "shares_owned", "purpose", "investment_intent",
     "activist_language", "control_intent"}

\* C29: analyze_filing_content always returns and never raises: after a fetch
\* that failed in transport, with a non-2xx status or in any other way it
\* returns a record without any field, and after a fetch that succeeded a
\* record with all six fact fields, each absent or false when nothing was
\* found.
C29_EnrichmentNeverRaises ==
    \A t \in Tasks :
        op[t].name = "analyze_filing_content" =>
            /\ pc[t] = "done"
            /\ result[t].status = "returned"
            /\ log[t][1].outcome /= "ok" => DOMAIN result[t].value = {}
            /\ log[t][1].outcome = "ok" =>
                   /\ DOMAIN result[t].value = FactFields
                   /\ result[t].value.activist_language \in BOOLEAN
                   /\ result[t].value.control_intent \in BOOLEAN
                   /\ \A f \in FactFields \ {"activist_language", "control_intent"} :
                          result[t].value[f] = None \/ Len(result[t].value[f]) = 1

\* a document fetch failed in transport and analyze_filing_content returned
\* the record without fields
C29_Witness ==
    \E t \in Tasks :
        /\ op[t].name = "analyze_filing_content"
        /\ pc[t] = "done"
        /\ log[t][1].outcome = "transport"
        /\ result[t].status = "returned"
        /\ DOMAIN result[t].value = {}

\* the form types a run has attempted so far, in the order of the attempts
Attempted(t) == [i \in 1..Len(log[t]) |-> log[t][i].form_type]

\* C30: a run called without a form-type list attempts the form types 13D,
\* 13G, 13G/A in that order and, when it returns, has attempted exactly these
\* three; a run called with the empty list makes no attempt, issues no
\* outbound request, never sleeps and returns the empty list.
C30_DefaultsAndEmptyList ==
    \A t \in Tasks :
        IsRun(t) =>
            /\ op[t].arg = None =>
                   /\ IsPrefix(Attempted(t), <<"13D", "13G", "13G/A">>)
                   /\ pc[t] = "done" => Attempted(t) = <<"13D", "13G", "13G/A">>
            /\ op[t].arg = Some(<<>>) =>
                   /\ log[t] = <<>>
                   /\ issued = 0
                   /\ pc[t] /= "sleeping"
                   /\ wake[t] = 0
                   /\ pc[t] = "done" => result[t] = Returned(<<>>)

\* a run called with the empty list has returned, and no request was issued
C30_Witness ==
    \E t \in Tasks :
        /\ IsRun(t)
        /\ op[t].arg = Some(<<>>)
        /\ pc[t] = "done"
        /\ issued = 0
        /\ result[t] = Returned(<<>>)

====
